---------------------------- MODULE Spec2Model ----------------------------
(***************************************************************************)
(* Model of the process runner (src-tauri/src/runner.rs) and the workflow  *)
(* engine (src-tauri/src/workflow.rs).                                     *)
(*                                                                         *)
(* Runner: run_command_emit allocates a history row, launches the child,   *)
(* stores it in RUNNING_PROCESSES and spawns the exit watcher task;        *)
(* kill_command removes a child from RUNNING_PROCESSES and signals it.     *)
(* Every registry access is one step: each happens under the one mutex.    *)
(*                                                                         *)
(* Workflow: run_workflow walks the steps in order; it is suspended only   *)
(* at run_command_sync(..).await and ai::analyze_error(..).await, so the   *)
(* code between two awaits is one step.                                    *)
(***************************************************************************)
EXTENDS Integers, Sequences, FiniteSets, TLC

(* ------------------------------ bounds -------------------------------- *)

\* number of run_command_emit calls
MaxProcs == 2
\* most lines a command writes to one of its pipes
MaxLines == 2
\* number of get_running_commands calls
MaxLists == 2
\* longest step sequence handed to run_workflow
MaxSteps == 3
\* longest step sequence of the runs whose steps differ in command and
\* working directory
MaxDirSteps == 2

(* --------------------------- Rust's Option ----------------------------- *)

None == << >>
Some(x) == << x >>
IsSome(o) == o # None
UnwrapOr(o, d) == IF o = None THEN d ELSE o[1]

(* ------------------------------- guard --------------------------------- *)

\* A command text is given by its words, the pieces split_whitespace yields,
\* and a word by its segments, the pieces between its '/' characters:
\* "/usr/bin/vim x" is << << "", "usr", "bin", "vim" >>, << "x" >> >>, and "/"
\* is << << "", "" >> >>.  The words of the commands below are lower case and
\* the patterns are given as they match texts made of such words.
W(s) == << s >>
Last(w) == w[Len(w)]

\* the word begins with '/', with "..", with '~'
BeginsAtRoot(w) == Len(w) >= 2 /\ w[1] = ""
BeginsAtParent(w) == w[1] = ".."
BeginsAtHome(w) == w[1] = "~"

\* redaction.rs 36: rm\s+(-[rRf]+\s+)*(/|/\*|\.\.|~/|~)
RmFlags == {W("-r"), W("-f"), W("-R"), W("-rf"), W("-fr"), W("-Rf")}
MatchesRm(c) ==
  \E i, j \in DOMAIN c :
    /\ i < j
    /\ Last(c[i]) = "rm"
    /\ \A k \in (i + 1) .. (j - 1) : c[k] \in RmFlags
    /\ BeginsAtRoot(c[j]) \/ BeginsAtParent(c[j]) \/ BeginsAtHome(c[j])

\* redaction.rs 38: :\(\)\s*\{\s*:\s*\|\s*:\s*&\s*\}\s*;?\s*:
MatchesForkBomb(c) ==
  \E i \in DOMAIN c :
    /\ i + 2 <= Len(c)
    /\ c[i] = W(":(){") /\ c[i + 1] = W(":|:&") /\ c[i + 2] = W("};:")

\* redaction.rs 40-41: curl\s+[^\|]+\|\s*(ba)?sh and the same with wget
Shells == {W("sh"), W("bash")}
MatchesPipeToShell(c, fetcher) ==
  \E i, j \in DOMAIN c :
    /\ i + 1 < j /\ j < Len(c)
    /\ Last(c[i]) = fetcher
    /\ c[j] = W("|")
    /\ \A k \in (i + 1) .. (j - 1) : c[k] # W("|")
    /\ c[j + 1] \in Shells

\* redaction.rs 43: dd\s+.*of=/dev/(sd[a-z]|nvme|hd[a-z])
Disks == {"sda", "sdb", "nvme", "hda"}
MatchesDd(c) ==
  \E i, j \in DOMAIN c :
    /\ i < j
    /\ Last(c[i]) = "dd"
    /\ Len(c[j]) = 3 /\ c[j][1] = "of=" /\ c[j][2] = "dev" /\ c[j][3] \in Disks

\* redaction.rs 45: chmod\s+(-R\s+)?777
MatchesChmod(c) ==
  \E i \in DOMAIN c :
    /\ Last(c[i]) = "chmod"
    /\ \/ i + 1 <= Len(c) /\ c[i + 1] = W("777")
       \/ i + 2 <= Len(c) /\ c[i + 1] = W("-R") /\ c[i + 2] = W("777")

\* redaction.rs 47: mkfs\s+
MatchesMkfs(c) == \E i \in DOMAIN c : i < Len(c) /\ Last(c[i]) = "mkfs"

\* redaction.rs 49: (?i)format\s+[a-z]:
Drives == {W("c:"), W("d:")}
MatchesFormat(c) ==
  \E i \in DOMAIN c : i < Len(c) /\ Last(c[i]) = "format" /\ c[i + 1] \in Drives

\* redaction.rs 51: >\s*/etc/(passwd|shadow|sudoers)
SystemFiles == {"passwd", "shadow", "sudoers"}
MatchesEtc(c) ==
  \E i \in DOMAIN c :
    /\ i < Len(c)
    /\ Last(c[i]) = ">"
    /\ Len(c[i + 1]) = 3 /\ c[i + 1][1] = "" /\ c[i + 1][2] = "etc"
    /\ c[i + 1][3] \in SystemFiles

\* redaction.rs 53: (?i)(shutdown|reboot|halt|poweroff)\s
PowerWords == {"shutdown", "reboot", "halt", "poweroff"}
MatchesPower(c) == \E i \in DOMAIN c : i < Len(c) /\ Last(c[i]) \in PowerWords

\* redaction.rs 33-55: DANGEROUS_PATTERNS, in the order of the list: whether
\* the pattern matches c, and its severity
DANGEROUS_PATTERNS(c) ==
  << [is_match |-> MatchesRm(c), severity |-> "high"],
     [is_match |-> MatchesForkBomb(c), severity |-> "high"],
     [is_match |-> MatchesPipeToShell(c, "curl"), severity |-> "medium"],
     [is_match |-> MatchesPipeToShell(c, "wget"), severity |-> "medium"],
     [is_match |-> MatchesDd(c), severity |-> "high"],
     [is_match |-> MatchesChmod(c), severity |-> "medium"],
     [is_match |-> MatchesMkfs(c), severity |-> "high"],
     [is_match |-> MatchesFormat(c), severity |-> "high"],
     [is_match |-> MatchesEtc(c), severity |-> "high"],
     [is_match |-> MatchesPower(c), severity |-> "low"] >>

\* the positions of the patterns that match c
Matching(c) ==
  {k \in DOMAIN DANGEROUS_PATTERNS(c) : DANGEROUS_PATTERNS(c)[k].is_match}

\* the least member of a set of numbers
Least(S) == CHOOSE x \in S : \A y \in S : x <= y

\* redaction::validate_command, redaction.rs 92-103: the severity of the
\* first pattern of the list that matches, or None
ValidateCommand(c) ==
  IF Matching(c) = {}
  THEN None
  ELSE Some(DANGEROUS_PATTERNS(c)[Least(Matching(c))].severity)

\* redaction.rs 107-110
interactive_commands ==
  {"vim", "vi", "nano", "emacs", "less", "more", "htop", "top", "ssh",
   "telnet", "ftp", "python", "node", "irb", "ghci"}

\* faulty variant of IsInteractiveCommand: the first word is compared with
\* its directory prefix
IsInteractiveCommandWhole(c) ==
  c # << >> /\ Len(c[1]) = 1 /\ c[1][1] \in interactive_commands

\* redaction::is_interactive_command, redaction.rs 106-116: the first word,
\* of it what follows the last '/', is in the list
IsInteractiveCommand(c) ==
  LET first_word == IF c = << >> THEN W("") ELSE c[1]
      base_cmd == Last(first_word)
  IN base_cmd \in interactive_commands

\* commands.rs 48-55: the warning is of severity high and force is absent or
\* false
Blocked(warning, force) ==
  IsSome(warning) /\ warning[1] = "high" /\ ~UnwrapOr(force, FALSE)

\* commands.rs 48-62: run_command returns an error before run_command_emit
Refused(c, force) ==
  Blocked(ValidateCommand(c), force) \/ IsInteractiveCommand(c)

\* command texts
Ls == << W("ls"), W("-la") >>
VimFile == << W("vim"), W("file.txt") >>
UsrBinVim == << << "", "usr", "bin", "vim" >>, W("file.txt") >>
Python3 == << W("python3"), W("x.py") >>
RmRoot == << W("rm"), W("-rf"), << "", "" >> >>
ChmodAll == << W("chmod"), W("-R"), W("777"), W("dir") >>
ShutdownNow == << W("shutdown"), W("now") >>
CurlThenMkfs ==
  << W("curl"), W("example.org"), W("|"), W("sh"), W("&&"), W("mkfs"),
     << "", "dev", "sdb1" >> >>
Make == << W("make") >>
Test == << W("make"), W("test") >>
SshRm == << W("ssh"), W("host"), W("rm"), W("-rf"), << "", "" >> >>

\* what callers may hand to run_command: the command and force
PlainRequests == {[command |-> Ls, force |-> None]}
Forces == {None, Some(FALSE), Some(TRUE)}
GuardedRequests ==
  [command : {Ls, VimFile, UsrBinVim, Python3, RmRoot, ChmodAll, ShutdownNow,
              CurlThenMkfs, SshRm},
   force : Forces]

(* ------------------------------ runner --------------------------------- *)

\* ids of commands_history rows (INTEGER PRIMARY KEY AUTOINCREMENT, from 1)
Ids == 1 .. MaxProcs
\* ids a caller may hand to kill_command; 0 is never a row id
KillTargets == 0 .. MaxProcs
\* exit codes a child may end with (status.code() is None after a signal)
ExitCodes == {7}
ExitStatuses == {None} \cup {Some(c) : c \in ExitCodes}

\* the exit code the watcher reports when it has no status (-1)
UNKNOWN_EXIT == -1

VARIABLES
  nextId,             \* the rowid the next insert_command_history returns
  spawnCalls,         \* number of run_command_emit calls made so far
  spawnPc,            \* per id: how far run_command_emit has got
  RUNNING_PROCESSES,  \* the registry: ids whose Child it holds
  child,              \* per id: the OS process: "none", "running", "exited"
  signalled,          \* per id: start_kill has signalled the OS process
  status,             \* per id: the ExitStatus of an exited process
  watcherPc,          \* per id: how far the exit watcher task has got
  exit_code,          \* per id: the watcher's local exit_code (an Option)
  historyExit,        \* per id: commands_history.exit_code (an Option)
  exitEvents,         \* per id: the exit codes of the command_exit events
  watcherTook,        \* per id: the watcher took the Child out of the registry
  killTook,           \* per id: number of kill_command calls that took the Child
  lastKill,           \* the latest kill_command call: an Option of its record
  registryLock,       \* the mutex of the registry: "free" or its holder
  listLog,            \* the get_running_commands calls, in order
  validated,          \* the commands passed to redaction::validate_command
  requests,           \* what callers hand to run_command: command and force
  refused,            \* the requests run_command returned an error for
  spawned             \* per id, the request whose call got the id (an Option)

runnerVars == << nextId, spawnCalls, spawnPc, RUNNING_PROCESSES, child,
                 signalled, status, watcherPc, exit_code, historyExit,
                 exitEvents, watcherTook, killTook, lastKill, registryLock,
                 listLog, validated, requests, refused, spawned >>

\* one run_command_sync call
VARIABLES
  syncOutput,    \* what the process of the call writes to its two pipes
  syncPc,        \* where the call is: call, running, exited, returned
  syncStatus,    \* the ExitStatus of the process of the call
  syncReturned   \* what the call returned (an Option)

syncVars == << syncOutput, syncPc, syncStatus, syncReturned >>

\* the output of the commands and the reader tasks of run_command_emit
VARIABLES
  script,         \* per id and stream: what the reads of the pipe meet, in order
  nread,          \* per id and stream: number of lines the reader has got
  readerPc,       \* per id and stream: how far the reader task has got
  buffer,         \* per id and stream: stdout_buf / stderr_buf
  chunks,         \* per id and stream: chunks of the events emitted, in order
  historyOutput   \* per id: commands_history.stdout and .stderr (an Option)

streamVars == << script, nread, readerPc, buffer, chunks, historyOutput >>

\* the state of one run_workflow call
VARIABLES
  steps,            \* the steps argument of run_workflow
  cwd,              \* the cwd argument of run_workflow (an Option)
  workflow_id,      \* the workflow_id argument (an Option)
  wfPc,             \* where run_workflow is: loop, sync, analyze, finish, done
  pos,              \* position (from 1) of the step the for loop is at
  steps_completed,  \* local of run_workflow
  failed_step,      \* local of run_workflow (an Option)
  error_msg,        \* local of run_workflow (an Option)
  suggestion,       \* local of run_workflow (an Option)
  started,          \* positions whose run_command_sync was called, in order
  inflight,         \* positions whose run_command_sync has not returned
  returned,         \* what run_command_sync returned, per started position
  events,           \* the events emitted through app.emit, in order
  advisorCalls,     \* the ai::analyze_error calls, in order
  ledgerCalls,      \* the db::update_workflow_last_run calls, in order
  result            \* what run_workflow returned (an Option)

workflowVars == << steps, cwd, workflow_id, wfPc, pos, steps_completed, failed_step,
                   error_msg, suggestion, started, inflight, returned, events,
                   advisorCalls, ledgerCalls, result >>

\* the state after calls calls of run_command, of the command Ls, that all
\* failed at insert_command_history: nothing is started; the calls to come
\* are made with one of reqs
RunnerStartsWith(calls, reqs) ==
  /\ registryLock = "free"
  /\ listLog = << >>
  /\ validated = IF calls = 0 THEN {} ELSE {Ls}
  /\ requests = reqs
  /\ refused = {}
  /\ spawned = [i \in Ids |-> None]
  /\ nextId = 1
  /\ spawnCalls = calls
  /\ spawnPc = [i \in Ids |-> "none"]
  /\ RUNNING_PROCESSES = {}
  /\ child = [i \in Ids |-> "none"]
  /\ signalled = [i \in Ids |-> FALSE]
  /\ status = [i \in Ids |-> None]
  /\ watcherPc = [i \in Ids |-> "none"]
  /\ exit_code = [i \in Ids |-> None]
  /\ historyExit = [i \in Ids |-> None]
  /\ exitEvents = [i \in Ids |-> << >>]
  /\ watcherTook = [i \in Ids |-> FALSE]
  /\ killTook = [i \in Ids |-> 0]
  /\ lastKill = None

\* the calls to come are of a command that run_command lets pass
RunnerStarts(calls) == RunnerStartsWith(calls, PlainRequests)

\* the state before any call
RunnerInit == RunnerStarts(0)

\* the two pipes of a child
Streams == {"stdout", "stderr"}
\* what a read of a pipe may meet: a line of valid UTF-8, a line with bytes
\* that are not valid UTF-8, or a failure of the read
ReadKinds == {"line", "invalid", "error"}
\* the output of a command on one pipe: the k-th read meets text k, and at
\* most one read meets something else than a line of valid UTF-8 (the
\* reader stops at the first)
Scripts ==
  UNION {{[k \in 1 .. n |-> [kind |-> f[k], text |-> k]] :
            f \in {g \in [1 .. n -> ReadKinds] :
                     Cardinality({k \in 1 .. n : g[k] # "line"}) <= 1}} :
         n \in 0 .. MaxLines}
\* a command without output
Silent == [s \in Streams |-> << >>]
\* '\n' in a buffer or a chunk; the text of a line is a positive number
NEWLINE == 0

\* no reader task runs; the commands that will be run have the outputs of
\* one element of scripts
StreamInit(scripts) ==
  /\ script \in scripts
  /\ nread = [i \in Ids |-> [s \in Streams |-> 0]]
  /\ readerPc = [i \in Ids |-> [s \in Streams |-> "none"]]
  /\ buffer = [i \in Ids |-> [s \in Streams |-> << >>]]
  /\ chunks = [i \in Ids |-> [s \in Streams |-> << >>]]
  /\ historyOutput = [i \in Ids |-> None]

\* line 81: the guard of RUNNING_PROCESSES.lock().insert(..) is a temporary,
\* dropped at the end of the statement
GuardAfterInsert == "free"

\* faulty variant of GuardAfterWatcherRemove: the guard is bound outside the
\* block and lives on through child.wait().await
GuardKeptByWatcher == "watcher"

\* lines 144-147: the guard is dropped at the end of the block, before the
\* watcher awaits the child
GuardAfterWatcherRemove == "free"

\* lines 231-242: the guard is dropped when kill_command returns; the
\* function does not suspend
GuardAfterKill == "free"

\* line 246: the guard of RUNNING_PROCESSES.lock().keys() is a temporary
GuardAfterList == "free"

\* faulty variant of RegistryInsert: the child is not stored
RegistryInsertLost(reg, id) == reg

\* HashMap::insert(id, child)
RegistryInsert(reg, id) == reg \cup {id}

\* faulty variant of RegistryRemove: a lookup that leaves the entry in place
RegistryPeek(reg, id) == reg

\* HashMap::remove(&id): the map afterwards
RegistryRemove(reg, id) == reg \ {id}

\* HashMap::remove(&id): the Option<Child> it returns
RegistryTake(reg, id) == IF id \in reg THEN Some(id) ELSE None

\* faulty variant of StatusCode: a missing code is reported as 0
StatusCodeZero(st) == UnwrapOr(st, 0)

\* status.code().unwrap_or(-1)
StatusCode(st) == UnwrapOr(st, UNKNOWN_EXIT)

\* faulty variant of NextRowid: the rowid of the newest row is handed out
\* again
NextRowidReused(n) == n

\* db.rs 28-37 and 82-94: id is INTEGER PRIMARY KEY AUTOINCREMENT, so the row
\* after the one with rowid n gets n + 1; the insert and last_insert_rowid()
\* run under one lock of the connection
NextRowid(n) == n + 1

\* run_command, commands.rs 48-62: the command was passed to
\* validate_command and the call returns an error, because the warning is
\* high and not forced or because the command is interactive;
\* run_command_emit is not called.
RunCommandRefused ==
  /\ spawnCalls < MaxProcs
  /\ spawnCalls' = spawnCalls + 1
  /\ \E r \in requests :
       /\ Refused(r.command, r.force)
       /\ validated' = validated \cup {r.command}
       /\ refused' = refused \cup {r}
  /\ UNCHANGED << workflowVars, streamVars, syncVars, registryLock, listLog,
                  requests, spawned, nextId, spawnPc, RUNNING_PROCESSES, child,
                  signalled, status, watcherPc, exit_code, historyExit,
                  exitEvents, watcherTook, killTook, lastKill >>

\* run_command (commands.rs 48-64) passes the command to validate_command and
\* calls run_command_emit; run_command_emit, lines 26-41: the history row is
\* inserted and its rowid is the id.
SpawnInsertHistory ==
  /\ spawnCalls < MaxProcs
  /\ spawnCalls' = spawnCalls + 1
  /\ \E r \in requests :
       /\ ~Refused(r.command, r.force)
       /\ validated' = validated \cup {r.command}
       /\ spawned' = [spawned EXCEPT ![nextId] = Some(r)]
  /\ spawnPc' = [spawnPc EXCEPT ![nextId] = "row"]
  /\ nextId' = NextRowid(nextId)
  /\ UNCHANGED << workflowVars, streamVars, syncVars, registryLock, listLog,
                  requests, refused,
                  RUNNING_PROCESSES, child, signalled, status,
                  watcherPc, exit_code, historyExit, exitEvents, watcherTook,
                  killTook, lastKill >>

\* run_command_emit, line 41: insert_command_history fails and the call
\* returns the error; no row, no id.
SpawnInsertHistoryFails ==
  /\ spawnCalls < MaxProcs
  /\ spawnCalls' = spawnCalls + 1
  /\ \E r \in requests :
       /\ ~Refused(r.command, r.force)
       /\ validated' = validated \cup {r.command}
  /\ UNCHANGED << workflowVars, streamVars, syncVars, registryLock, listLog,
                  requests, refused, spawned,
                  nextId, spawnPc, RUNNING_PROCESSES, child,
                  signalled, status, watcherPc, exit_code, historyExit,
                  exitEvents, watcherTook, killTook, lastKill >>

\* run_command_emit, lines 44-78: command_started is emitted and the child
\* is launched.
SpawnLaunch(id) ==
  /\ spawnPc[id] = "row"
  /\ spawnPc' = [spawnPc EXCEPT ![id] = "launched"]
  /\ child' = [child EXCEPT ![id] = "running"]
  /\ UNCHANGED << workflowVars, streamVars, syncVars, registryLock, listLog,
                  validated, requests, refused, spawned, nextId, spawnCalls, RUNNING_PROCESSES,
                  signalled, status, watcherPc, exit_code, historyExit,
                  exitEvents, watcherTook, killTook, lastKill >>

\* faulty variant of SpawnLaunchFails: the tasks were spawned before the
\* process was created, and the watcher of the failed call runs
SpawnLaunchFailsStarts(id) ==
  /\ spawnPc[id] = "row"
  /\ spawnPc' = [spawnPc EXCEPT ![id] = "spawn_failed"]
  /\ watcherPc' = [watcherPc EXCEPT ![id] = "sleep50"]
  /\ UNCHANGED << workflowVars, streamVars, syncVars, registryLock, listLog,
                  validated, requests, refused, spawned, nextId, spawnCalls, RUNNING_PROCESSES, child,
                  signalled, status, exit_code, historyExit, exitEvents,
                  watcherTook, killTook, lastKill >>

\* run_command_emit, line 75: Command::spawn fails, the call returns Err.
SpawnLaunchFails(id) ==
  /\ spawnPc[id] = "row"
  /\ spawnPc' = [spawnPc EXCEPT ![id] = "spawn_failed"]
  /\ UNCHANGED << workflowVars, streamVars, syncVars, registryLock, listLog,
                  validated, requests, refused, spawned, nextId, spawnCalls, RUNNING_PROCESSES, child,
                  signalled, status, watcherPc, exit_code, historyExit,
                  exitEvents, watcherTook, killTook, lastKill >>

\* run_command_emit, lines 80-187: the child is stored in the registry, the
\* tasks are spawned (the readers start in next_line, the watcher in its
\* 50 ms sleep) and the handle is returned.
SpawnStore(id) ==
  /\ spawnPc[id] = "launched"
  /\ registryLock = "free"
  /\ RUNNING_PROCESSES' = RegistryInsert(RUNNING_PROCESSES, id)
  /\ registryLock' = GuardAfterInsert
  /\ readerPc' = [readerPc EXCEPT ![id] = [s \in Streams |-> "next"]]
  /\ watcherPc' = [watcherPc EXCEPT ![id] = "sleep50"]
  /\ spawnPc' = [spawnPc EXCEPT ![id] = "returned"]
  /\ UNCHANGED << workflowVars, script, nread, buffer, chunks, historyOutput,
                  syncVars, listLog, validated, requests, refused, spawned,
                  nextId, spawnCalls, child, signalled, status, exit_code,
                  historyExit, exitEvents, watcherTook, killTook, lastKill >>

\* The OS process ends by itself, or by the signal start_kill sent.
ProcessExit(id) ==
  /\ child[id] = "running"
  /\ \E st \in ExitStatuses :
       /\ signalled[id] => st = None
       /\ status' = [status EXCEPT ![id] = st]
  /\ child' = [child EXCEPT ![id] = "exited"]
  /\ UNCHANGED << workflowVars, streamVars, syncVars, registryLock, listLog,
                  validated, requests, refused, spawned, nextId, spawnCalls, spawnPc,
                  RUNNING_PROCESSES, signalled, watcherPc, exit_code,
                  historyExit, exitEvents, watcherTook, killTook, lastKill >>

\* exit watcher, lines 140-156: after the 50 ms sleep the id is removed from
\* the registry under the lock; without a child the exit code is -1.
WatcherRemove(id) ==
  /\ watcherPc[id] = "sleep50"
  /\ registryLock = "free"
  /\ registryLock' = GuardAfterWatcherRemove
  /\ LET child_opt == RegistryTake(RUNNING_PROCESSES, id) IN
       /\ RUNNING_PROCESSES' = RegistryRemove(RUNNING_PROCESSES, id)
       /\ IF IsSome(child_opt)
            THEN /\ watcherPc' = [watcherPc EXCEPT ![id] = "wait"]
                 /\ watcherTook' = [watcherTook EXCEPT ![id] = TRUE]
                 /\ UNCHANGED exit_code
            ELSE /\ watcherPc' = [watcherPc EXCEPT ![id] = "sleep100"]
                 /\ exit_code' = [exit_code EXCEPT ![id] = Some(UNKNOWN_EXIT)]
                 /\ UNCHANGED watcherTook
  /\ UNCHANGED << workflowVars, streamVars, syncVars, listLog, validated, requests, refused, spawned,
                  nextId, spawnCalls, spawnPc, child, signalled, status,
                  historyExit, exitEvents, killTook, lastKill >>

\* exit watcher, lines 150-151: child.wait() returns the status of the
\* exited process.
WatcherWait(id) ==
  /\ watcherPc[id] = "wait"
  /\ child[id] = "exited"
  /\ exit_code' = [exit_code EXCEPT ![id] = Some(StatusCode(status[id]))]
  /\ watcherPc' = [watcherPc EXCEPT ![id] = "sleep100"]
  /\ UNCHANGED << workflowVars, streamVars, syncVars, registryLock, listLog,
                  validated, requests, refused, spawned, nextId, spawnCalls, spawnPc,
                  RUNNING_PROCESSES, child, signalled, status, historyExit,
                  exitEvents, watcherTook, killTook, lastKill >>

\* exit watcher, line 152: child.wait() returns Err.
WatcherWaitErr(id) ==
  /\ watcherPc[id] = "wait"
  /\ exit_code' = [exit_code EXCEPT ![id] = Some(UNKNOWN_EXIT)]
  /\ watcherPc' = [watcherPc EXCEPT ![id] = "sleep100"]
  /\ UNCHANGED << workflowVars, streamVars, syncVars, registryLock, listLog,
                  validated, requests, refused, spawned, nextId, spawnCalls, spawnPc,
                  RUNNING_PROCESSES, child, signalled, status, historyExit,
                  exitEvents, watcherTook, killTook, lastKill >>

\* faulty variant of WatcherFinalize: a failed update of the history row ends
\* the task, command_exit is not emitted
WatcherFinalizeAborts(id) ==
  /\ watcherPc[id] = "sleep100"
  /\ \E written \in BOOLEAN :
       IF written
         THEN /\ historyExit' = [historyExit EXCEPT ![id] = exit_code[id]]
              /\ historyOutput' =
                   [historyOutput EXCEPT ![id] =
                      Some([stdout |-> buffer[id]["stdout"],
                            stderr |-> buffer[id]["stderr"],
                            exit_events |-> Len(exitEvents[id])])]
              /\ exitEvents' =
                   [exitEvents EXCEPT ![id] = Append(@, exit_code[id][1])]
         ELSE UNCHANGED << historyExit, historyOutput, exitEvents >>
  /\ watcherPc' = [watcherPc EXCEPT ![id] = "done"]
  /\ UNCHANGED << workflowVars, script, nread, readerPc, buffer, chunks,
                  syncVars, registryLock, listLog, validated, requests, refused, spawned,
                  nextId, spawnCalls, spawnPc, RUNNING_PROCESSES, child,
                  signalled, status, exit_code, watcherTook, killTook,
                  lastKill >>

\* faulty variant of WatcherFinalize: command_exit is emitted before the
\* update of the history row and again after it
WatcherFinalizeTwice(id) ==
  /\ watcherPc[id] = "sleep100"
  /\ \E written \in BOOLEAN :
       IF written
         THEN /\ historyExit' = [historyExit EXCEPT ![id] = exit_code[id]]
              /\ historyOutput' =
                   [historyOutput EXCEPT ![id] =
                      Some([stdout |-> buffer[id]["stdout"],
                            stderr |-> buffer[id]["stderr"],
                            exit_events |-> Len(exitEvents[id])])]
         ELSE UNCHANGED << historyExit, historyOutput >>
  /\ exitEvents' =
       [exitEvents EXCEPT ![id] = @ \o << exit_code[id][1], exit_code[id][1] >>]
  /\ watcherPc' = [watcherPc EXCEPT ![id] = "done"]
  /\ UNCHANGED << workflowVars, script, nread, readerPc, buffer, chunks,
                  syncVars, registryLock, listLog, validated, requests,
                  refused, spawned, nextId, spawnCalls, spawnPc,
                  RUNNING_PROCESSES, child, signalled, status, exit_code,
                  watcherTook, killTook, lastKill >>

\* exit watcher, lines 159-179: after the 100 ms sleep the two buffers are
\* copied, the history row is updated with the copies and the exit code (the
\* update succeeds or fails and its result is ignored) and command_exit is
\* emitted; the task does not suspend between the three.  The row records
\* the number of command_exit events of the id emitted before the update.
WatcherFinalize(id) ==
  /\ watcherPc[id] = "sleep100"
  /\ LET stdout_str == buffer[id]["stdout"]
         stderr_str == buffer[id]["stderr"]
     IN
       \E written \in BOOLEAN :
         IF written
           THEN /\ historyExit' = [historyExit EXCEPT ![id] = exit_code[id]]
                /\ historyOutput' =
                     [historyOutput EXCEPT ![id] =
                        Some([stdout |-> stdout_str, stderr |-> stderr_str,
                              exit_events |-> Len(exitEvents[id])])]
           ELSE UNCHANGED << historyExit, historyOutput >>
  /\ exitEvents' = [exitEvents EXCEPT ![id] = Append(@, exit_code[id][1])]
  /\ watcherPc' = [watcherPc EXCEPT ![id] = "done"]
  /\ UNCHANGED << workflowVars, script, nread, readerPc, buffer, chunks,
                  syncVars, registryLock, listLog, validated, requests, refused, spawned,
                  nextId, spawnCalls, spawnPc, RUNNING_PROCESSES, child,
                  signalled, status, exit_code, watcherTook, killTook,
                  lastKill >>

\* faulty variant of KillRemove: the whole map is cleared
KillRemoveClears(reg, id) == {}

\* faulty variant of KillRemove: the child is signalled through a reference
\* and the entry stays
KillRemoveKeeps(reg, id) == reg

\* kill_command, line 233: what the call does to the registry
KillRemove(reg, id) == RegistryRemove(reg, id)

\* faulty variant of KillResult: a failed start_kill is reported like an
\* unknown id
KillResultNotFound(ok) == IF ok THEN "Ok" ELSE "NotFound"

\* kill_command, lines 234-236: the result when the child was found, by
\* what child.start_kill() returned
KillResult(ok) == IF ok THEN "Ok" ELSE "KillFailed"

\* kill_command, lines 230-242, all of it under the registry lock.  The call
\* is recorded: its argument, its result, whether the id was in the registry,
\* the entries it removed, and whether an earlier call had taken this id.
KillCommand(id) ==
  /\ registryLock = "free"
  /\ registryLock' = GuardAfterKill
  /\ LET taken == RegistryTake(RUNNING_PROCESSES, id)
         call(res) == [id |-> id, result |-> res,
                       found |-> id \in RUNNING_PROCESSES,
                       removed |-> RUNNING_PROCESSES \ RUNNING_PROCESSES',
                       earlier |-> id \in Ids /\ killTook[id] > 0]
     IN
       /\ RUNNING_PROCESSES' = KillRemove(RUNNING_PROCESSES, id)
       /\ IF IsSome(taken)
            THEN /\ killTook' = [killTook EXCEPT ![id] = @ + 1]
                 /\ \E ok \in BOOLEAN :
                      /\ signalled' = [signalled EXCEPT ![id] = @ \/ ok]
                      /\ lastKill' =
                           Some(call(KillResult(ok)))
            ELSE /\ lastKill' = Some(call("NotFound"))
                 /\ UNCHANGED << killTook, signalled >>
  /\ UNCHANGED << workflowVars, streamVars, syncVars, listLog, validated, requests, refused, spawned,
                  nextId, spawnCalls, spawnPc, child, status, watcherPc,
                  exit_code, historyExit, exitEvents, watcherTook >>

\* the sequences that list the members of the set S, each once
Listings(S) ==
  {v \in [1 .. Cardinality(S) -> S] : \A i, j \in DOMAIN v : v[i] = v[j] => i = j}

\* faulty variant of Keys: the key 1 is left out
KeysButFirst(reg) == Listings(reg \ {1})

\* line 246: keys().cloned().collect(), the Vecs the call may return: the
\* keys of the map, each once, in the order of the HashMap, which is any
Keys(reg) == Listings(reg)

\* the number of inserts into the registry and of removals of an entry made
\* so far (a removal by kill_command is counted per id, an id is taken once)
RegistryChanges ==
  Cardinality({id \in Ids : spawnPc[id] = "returned"})
    + Cardinality({id \in Ids : watcherTook[id]})
    + Cardinality({id \in Ids : killTook[id] > 0})

\* get_running_commands, lines 245-247.  The call is recorded: what it
\* returned and the number of registry changes made before it.
GetRunningCommands ==
  /\ Len(listLog) < MaxLists
  /\ registryLock = "free"
  /\ \E keys \in Keys(RUNNING_PROCESSES) :
       listLog' = Append(listLog, [keys |-> keys, changes |-> RegistryChanges])
  /\ registryLock' = GuardAfterList
  /\ UNCHANGED << workflowVars, streamVars, syncVars, validated, requests, refused, spawned, nextId,
                  spawnCalls, spawnPc, RUNNING_PROCESSES, child, signalled,
                  status, watcherPc, exit_code, historyExit, exitEvents,
                  watcherTook, killTook, lastKill >>

RunnerNext ==
  \/ SpawnInsertHistory
  \/ SpawnInsertHistoryFails
  \/ \E id \in Ids : SpawnLaunch(id)
  \/ \E id \in Ids : SpawnLaunchFails(id)
  \/ \E id \in Ids : SpawnStore(id)
  \/ \E id \in Ids : ProcessExit(id)
  \/ \E id \in Ids : WatcherRemove(id)
  \/ \E id \in Ids : WatcherWait(id)
  \/ \E id \in Ids : WatcherWaitErr(id)
  \/ \E id \in Ids : WatcherFinalize(id)
  \/ \E id \in KillTargets : KillCommand(id)

(* -------------------------- stream readers ----------------------------- *)

\* lines.next_line().await on a pipe whose reads meet sc, n of them done:
\* Ok(Some(line)) for a line of valid UTF-8, Ok(None) at the end of the
\* output, Err for a line that is not valid UTF-8 and for a failed read
NextLine(sc, n) ==
  IF n = Len(sc) THEN [ok |-> TRUE, line |-> None]
  ELSE IF sc[n + 1].kind = "line"
         THEN [ok |-> TRUE, line |-> Some(sc[n + 1].text)]
         ELSE [ok |-> FALSE, line |-> None]

\* faulty variant of Chunk: the line without its newline
ChunkBare(line) == << line >>

\* lines 106 and 127: format!("{}\n", line)
Chunk(line) == << line, NEWLINE >>

\* the variables the reader tasks leave alone
readerFrame == << runnerVars, syncVars, workflowVars, script, historyOutput >>

\* reader task, lines 98-99 (119-120): next_line gives a line and the line is
\* pushed to the buffer under the buffer's lock.
ReaderPushStr(id, s) ==
  /\ readerPc[id][s] = "next"
  /\ LET r == NextLine(script[id][s], nread[id][s]) IN
       /\ r.ok /\ IsSome(r.line)
       /\ buffer' = [buffer EXCEPT ![id][s] = Append(@, r.line[1])]
  /\ nread' = [nread EXCEPT ![id][s] = @ + 1]
  /\ readerPc' = [readerPc EXCEPT ![id][s] = "pushed_str"]
  /\ UNCHANGED << readerFrame, chunks >>

\* reader task, line 100 (121): the newline is pushed to the buffer under
\* the lock, taken anew.
ReaderPushNewline(id, s) ==
  /\ readerPc[id][s] = "pushed_str"
  /\ buffer' = [buffer EXCEPT ![id][s] = Append(@, NEWLINE)]
  /\ readerPc' = [readerPc EXCEPT ![id][s] = "pushed_newline"]
  /\ UNCHANGED << readerFrame, nread, chunks >>

\* reader task, lines 102-108 (123-129): the chunk of the line is emitted
\* and the loop calls next_line again.
ReaderEmit(id, s) ==
  /\ readerPc[id][s] = "pushed_newline"
  /\ LET line == script[id][s][nread[id][s]].text IN
       chunks' = [chunks EXCEPT ![id][s] = Append(@, Chunk(line))]
  /\ readerPc' = [readerPc EXCEPT ![id][s] = "next"]
  /\ UNCHANGED << readerFrame, nread, buffer >>

\* faulty variant of ReaderFails: the buffer is emptied when the task ends
ReaderFailsClears(id, s) ==
  /\ readerPc[id][s] = "next"
  /\ ~NextLine(script[id][s], nread[id][s]).ok
  /\ readerPc' = [readerPc EXCEPT ![id][s] = "failed"]
  /\ buffer' = [buffer EXCEPT ![id][s] = << >>]
  /\ UNCHANGED << readerFrame, nread, chunks >>

\* reader task, line 98 (119): next_line gives Err, `while let Ok(Some(..))`
\* does not match and the task ends.
ReaderFails(id, s) ==
  /\ readerPc[id][s] = "next"
  /\ ~NextLine(script[id][s], nread[id][s]).ok
  /\ readerPc' = [readerPc EXCEPT ![id][s] = "failed"]
  /\ UNCHANGED << readerFrame, nread, buffer, chunks >>

\* reader task, line 98 (119): the process has ended, the pipe is drained,
\* next_line gives Ok(None) and the task ends.
ReaderEof(id, s) ==
  /\ readerPc[id][s] = "next"
  /\ child[id] = "exited"
  /\ LET r == NextLine(script[id][s], nread[id][s]) IN r.ok /\ r.line = None
  /\ readerPc' = [readerPc EXCEPT ![id][s] = "ended"]
  /\ UNCHANGED << readerFrame, nread, buffer, chunks >>

ReaderNext ==
  \/ \E id \in Ids, s \in Streams : ReaderPushStr(id, s)
  \/ \E id \in Ids, s \in Streams : ReaderPushNewline(id, s)
  \/ \E id \in Ids, s \in Streams : ReaderEmit(id, s)
  \/ \E id \in Ids, s \in Streams : ReaderFails(id, s)
  \/ \E id \in Ids, s \in Streams : ReaderEof(id, s)

(* --------------------------- run_command_sync -------------------------- *)

\* redaction.rs 120: the number of leading bytes is_binary_output looks at
SAMPLE == 1024

\* U+FFFD, the character String::from_utf8_lossy puts where a byte sequence
\* is no UTF-8
REPLACEMENT == 65533

\* "[Binary output]", its characters as code points
BINARY_PLACEHOLDER ==
  << 91, 66, 105, 110, 97, 114, 121, 32, 111, 117, 116, 112, 117, 116, 93 >>

\* usize::min
Min(a, b) == IF a < b THEN a ELSE b

\* what a process writes to a pipe is given as runs of equal bytes; Bytes is
\* the byte sequence (Vec<u8>) the pipe delivers
RECURSIVE Bytes(_)
Bytes(runs) ==
  IF runs = << >>
  THEN << >>
  ELSE [k \in 1 .. runs[1].count |-> runs[1].byte] \o Bytes(Tail(runs))

\* the bytes a process writes: NUL, line feed, a control byte, a letter and
\* a byte that occurs in no UTF-8 text
SampleBytes == {0, 10, 31, 65, 255}
\* the lengths of the runs: around one tenth of ten bytes, around one tenth
\* of the sampled bytes, and the sampled bytes
RunLengths == {0, 1, 9, 102, 103, 1024}

\* the outputs of two runs over the given bytes and lengths
OutputsOver(bytes, lengths) ==
  {<< [byte |-> b1, count |-> c1], [byte |-> b2, count |-> c2] >> :
     b1 \in bytes, b2 \in bytes, c1 \in lengths, c2 \in lengths}

\* the outputs of a process on its two pipes: any sample on one, nothing or
\* up to two NUL bytes on the other
SyncInputs ==
  LET long == OutputsOver(SampleBytes, RunLengths)
      short == OutputsOver({0}, {0, 1})
  IN {[stdout |-> a, stderr |-> b] : a \in long, b \in short}
       \cup {[stdout |-> b, stderr |-> a] : a \in long, b \in short}

\* redaction.rs 122: the filter of is_binary_output
NonPrintable(b) == b = 0 \/ (b < 32 /\ b # 9 /\ b # 10 /\ b # 13)

\* faulty variant of IsBinaryOutput: every byte is counted, not only the
\* sampled ones
IsBinaryOutputWhole(data) ==
  LET non_printable_count ==
        Cardinality({k \in DOMAIN data : NonPrintable(data[k])})
  IN non_printable_count > Min(Len(data), SAMPLE) \div 10

\* redaction::is_binary_output, redaction.rs 119-127
IsBinaryOutput(data) ==
  LET sampled == SubSeq(data, 1, Min(Len(data), SAMPLE))
      non_printable_count ==
        Cardinality({k \in DOMAIN sampled : NonPrintable(sampled[k])})
  IN non_printable_count > Min(Len(data), SAMPLE) \div 10

\* String::from_utf8_lossy on bytes of SampleBytes: a byte below 128 is the
\* character of that code point; 255 begins no UTF-8 sequence and is replaced
\* by one U+FFFD
FromUtf8Lossy(data) ==
  [k \in DOMAIN data |-> IF data[k] < 128 THEN data[k] ELSE REPLACEMENT]

\* faulty variant of SyncStream: the stream is never replaced
SyncStreamDecoded(data) == FromUtf8Lossy(data)

\* runner.rs 214-218 and 220-224: what run_command_sync returns for a stream
SyncStream(data) ==
  IF IsBinaryOutput(data) THEN BINARY_PLACEHOLDER ELSE FromUtf8Lossy(data)

\* runner.rs 211: output.status.code().unwrap_or(-1)
SyncExitCode(st) == UnwrapOr(st, UNKNOWN_EXIT)

\* no run_command_sync call is made
NoSync ==
  /\ syncOutput = [s \in Streams |-> << >>]
  /\ syncPc = "none"
  /\ syncStatus = None
  /\ syncReturned = None

\* run_command_sync is called for a command whose process writes one of
\* outputs
SyncCalled(outputs) ==
  /\ syncOutput \in outputs
  /\ syncPc = "call"
  /\ syncStatus = None
  /\ syncReturned = None

syncFrame == << runnerVars, streamVars, workflowVars, syncOutput >>

\* lines 205-208: Command::output() cannot start the process, the error is
\* returned
SyncSpawnFails ==
  /\ syncPc = "call"
  /\ syncPc' = "returned"
  /\ syncReturned' = Some([ok |-> FALSE, error |-> "Failed to execute command"])
  /\ UNCHANGED << syncFrame, syncStatus >>

\* lines 190-206: Command::output() starts the process and the call awaits
SyncSpawn ==
  /\ syncPc = "call"
  /\ syncPc' = "running"
  /\ UNCHANGED << syncFrame, syncStatus, syncReturned >>

\* the process ends with a code, or by a signal and without one
SyncProcessExit ==
  /\ syncPc = "running"
  /\ \E st \in ExitStatuses : syncStatus' = Some(st)
  /\ syncPc' = "exited"
  /\ UNCHANGED << syncFrame, syncReturned >>

\* lines 206-226: output() has collected both pipes and the status; the
\* triple is returned
SyncReturn ==
  /\ syncPc = "exited"
  /\ syncPc' = "returned"
  /\ syncReturned' = Some([ok |-> TRUE,
                           exit_code |-> SyncExitCode(syncStatus[1]),
                           stdout |-> SyncStream(Bytes(syncOutput.stdout)),
                           stderr |-> SyncStream(Bytes(syncOutput.stderr))])
  /\ UNCHANGED << syncFrame, syncStatus >>

SyncNext ==
  \/ SyncSpawnFails
  \/ SyncSpawn
  \/ SyncProcessExit
  \/ SyncReturn

(* ----------------------------- workflow -------------------------------- *)

\* declared indices a caller may give a step (WorkflowStep.step)
StepIndices == {1, 2, 3}
\* WorkflowStep: the declared index, the command, the working directory of
\* the step (an Option) and the continue_on_fail flag
StepsOver(indices, cmds, cwds) ==
  [step : indices, cmd : cmds, cwd : cwds, continue_on_fail : BOOLEAN]
\* steps that all run the same command in the directory of the run
WorkflowSteps == StepsOver(StepIndices, {Make}, {None})
\* steps that differ in command and working directory
DirSteps == StepsOver({1}, {Make, Test}, {None, Some("sub")})
\* the sequences of at most n elements of S
SeqsOver(S, n) == UNION {[1 .. k -> S] : k \in 0 .. n}
\* the step sequences handed to run_workflow
StepSeqs == SeqsOver(WorkflowSteps, MaxSteps)
DirStepSeqs == SeqsOver(DirSteps, MaxDirSteps)
\* what a command may leave in its two captured streams
SyncOutputs == {[stdout |-> "out", stderr |-> ""],
                [stdout |-> "", stderr |-> "boom"]}
\* what run_command_sync returns: Ok((exit_code, stdout, stderr)) or Err(e)
SyncResults ==
  {[ok |-> TRUE, exit_code |-> c, stdout |-> o.stdout, stderr |-> o.stderr] :
     c \in {0, 1}, o \in SyncOutputs}
    \cup {[ok |-> FALSE, exit_code |-> 0, stdout |-> "",
           stderr |-> "Failed to execute command"]}

\* run_workflow is called with one of the step sequences seqs, one of the
\* workflow ids ids and one of the working directories dirs
WorkflowCalled(seqs, ids, dirs) ==
  /\ steps \in seqs
  /\ workflow_id \in ids
  /\ cwd \in dirs
  /\ wfPc = "loop"
  /\ pos = 1
  /\ steps_completed = 0
  /\ failed_step = None
  /\ error_msg = None
  /\ suggestion = None
  /\ started = << >>
  /\ inflight = {}
  /\ returned = << >>
  /\ events = << >>
  /\ advisorCalls = << >>
  /\ ledgerCalls = << >>
  /\ result = None

\* faulty variant of WfId: the supplied identifier is dropped
WfIdZero == UnwrapOr(None, 0)

\* workflow_id.unwrap_or(0)
WfId == UnwrapOr(workflow_id, 0)

\* line 16: cwd.unwrap_or_else(|| ".".to_string())
WorkingDir == UnwrapOr(cwd, ".")

\* faulty variant of StepCwd: the directory of the step is ignored
StepCwdIgnoresStep(s, working_dir) == working_dir

\* line 36: step.cwd.clone().unwrap_or_else(|| working_dir.clone())
StepCwd(s, working_dir) == UnwrapOr(s.cwd, working_dir)

\* faulty variant of StepCompleteEvent: the two streams are swapped
StepCompleteEventSwapped(s, r) ==
  [name |-> "workflow_step_complete", workflow_id |-> WfId, step |-> s.step,
   exit_code |-> r.exit_code, stdout |-> r.stderr, stderr |-> r.stdout]

\* lines 44-53: the payload of workflow_step_complete
StepCompleteEvent(s, r) ==
  [name |-> "workflow_step_complete", workflow_id |-> WfId, step |-> s.step,
   exit_code |-> r.exit_code, stdout |-> r.stdout, stderr |-> r.stderr]

\* faulty variant of FailedEvent: the suggestion is left out
FailedEventBare(s, err, sugg) ==
  [name |-> "workflow_failed", workflow_id |-> WfId, step |-> s.step,
   error |-> err, suggestion |-> None]

\* lines 66-83 and 96-103: the payload of workflow_failed; without a
\* suggestion the payload has no such key
FailedEvent(s, err, sugg) ==
  [name |-> "workflow_failed", workflow_id |-> WfId, step |-> s.step,
   error |-> err, suggestion |-> sugg]

\* faulty variant of CompleteEvent: the steps run are counted
CompleteEventCounts(success, completed) ==
  [name |-> "workflow_complete", workflow_id |-> WfId, success |-> success,
   steps_completed |-> Len(returned)]

\* lines 117-124: the payload of workflow_complete
CompleteEvent(success, completed) ==
  [name |-> "workflow_complete", workflow_id |-> WfId, success |-> success,
   steps_completed |-> completed]

\* faulty variant of LastRunIds: the write is made without an id as well
LastRunIdsAlways(wid) == {UnwrapOr(wid, 0)}

\* line 110: the ids update_workflow_last_run is called with
LastRunIds(wid) == IF IsSome(wid) THEN {wid[1]} ELSE {}

\* faulty variant of ReturnOk: a failed run is returned as an error
ReturnErrOnFailure(r) == IF r.success THEN Some(r) ELSE None

\* line 126: Ok(WorkflowRunResult {..}), the only return of run_workflow
ReturnOk(r) == Some(r)

\* faulty variant of IsFatal: the flag is read the wrong way round
IsFatalFlagInverted(code, continue_on_fail) == code # 0 /\ continue_on_fail

\* faulty variant of IsFatal: continue_on_fail is ignored
IsFatalIgnoresFlag(code, continue_on_fail) == code # 0

\* line 55: the step failed and the run stops
IsFatal(code, continue_on_fail) == code # 0 /\ ~continue_on_fail

\* faulty variant of NextPos: the loop skips an element
NextPosSkips(p) == p + 2

\* line 24: the for loop moves to the next element
NextPos(p) == p + 1

\* faulty variant of Completed: the steps are counted
CompletedCounts(prev, s) == prev + 1

\* line 89: steps_completed after a step that did not stop the run
Completed(prev, s) == s.step

\* faulty variant of Success: the flag is not derived from failed_step
SuccessIgnoresFailure(failed) == TRUE

\* line 114: failed_step.is_none()
Success(failed) == failed = None

\* faulty variant of WfStepStart: the step is run through the registry, its
\* process is stored under the step's declared index
WfStepStartTracked ==
  /\ wfPc = "loop"
  /\ pos <= Len(steps)
  /\ events' = Append(events, [name |-> "workflow_step_start",
                               workflow_id |-> WfId, step |-> steps[pos].step])
  /\ started' = Append(started, pos)
  /\ inflight' = inflight \cup {pos}
  /\ wfPc' = "sync"
  /\ RUNNING_PROCESSES' = RegistryInsert(RUNNING_PROCESSES, steps[pos].step)
  /\ UNCHANGED << streamVars, syncVars, steps, cwd, workflow_id, pos,
                  steps_completed, failed_step, error_msg, suggestion,
                  returned, advisorCalls, ledgerCalls, result, nextId,
                  spawnCalls, spawnPc, child, signalled, status, watcherPc,
                  exit_code, historyExit, exitEvents, watcherTook, killTook,
                  lastKill, registryLock, listLog, validated, requests,
                  refused, spawned >>

\* lines 24-39: the loop takes the step at pos, emits workflow_step_start and
\* calls run_command_sync.
WfStepStart ==
  /\ wfPc = "loop"
  /\ pos <= Len(steps)
  /\ events' = Append(events, [name |-> "workflow_step_start",
                               workflow_id |-> WfId, step |-> steps[pos].step])
  /\ started' = Append(started, pos)
  /\ inflight' = inflight \cup {pos}
  /\ wfPc' = "sync"
  /\ UNCHANGED << runnerVars, streamVars, syncVars, steps, cwd, workflow_id, pos, steps_completed,
                  failed_step, error_msg, suggestion, returned, advisorCalls,
                  ledgerCalls, result >>

\* line 24: the sequence is exhausted and the loop ends.
WfLoopEnd ==
  /\ wfPc = "loop"
  /\ pos > Len(steps)
  /\ wfPc' = "finish"
  /\ UNCHANGED << runnerVars, streamVars, syncVars, steps, cwd, workflow_id, pos, steps_completed,
                  failed_step, error_msg, suggestion, started, inflight,
                  returned, events, advisorCalls, ledgerCalls, result >>

\* faulty variant of AfterSpawnError: a step with continue_on_fail does not
\* stop the run when its command cannot be executed
AfterSpawnErrorHonoursFlag(s) == IF s.continue_on_fail THEN "loop" ELSE "finish"

\* line 104: the Err arm ends in break, whatever the step's flag
AfterSpawnError(s) == "finish"

\* lines 39-106: run_command_sync returns r and the match arm runs up to the
\* next await (analyze_error), the break, or the end of the loop body.
WfSyncReturn(r) ==
  /\ wfPc = "sync"
  /\ inflight' = inflight \ {pos}
  /\ returned' = Append(returned, r)
  /\ LET s == steps[pos] IN
       IF r.ok
         THEN   /\ events' = Append(events, StepCompleteEvent(s, r))
                /\ IF IsFatal(r.exit_code, s.continue_on_fail)
                     THEN /\ failed_step' = Some(s.step)
                          /\ error_msg' = Some(r.stderr)
                          /\ advisorCalls' = Append(advisorCalls,
                               [stderr |-> r.stderr, exit_code |-> r.exit_code,
                                command |-> s.cmd,
                                cwd |-> Some(StepCwd(s, WorkingDir))])
                          /\ wfPc' = "analyze"
                          /\ UNCHANGED << steps_completed, pos >>
                     ELSE /\ steps_completed' = Completed(steps_completed, s)
                          /\ pos' = NextPos(pos)
                          /\ wfPc' = "loop"
                          /\ UNCHANGED << failed_step, error_msg,
                                          advisorCalls >>
         ELSE /\ failed_step' = Some(s.step)
              /\ error_msg' = Some(r.stderr)
              /\ events' = Append(events, FailedEvent(s, r.stderr, None))
              /\ wfPc' = AfterSpawnError(s)
              /\ UNCHANGED << steps_completed, pos, advisorCalls >>
  /\ UNCHANGED << runnerVars, streamVars, syncVars, steps, cwd, workflow_id, suggestion, started,
                  ledgerCalls, result >>

\* lines 61-86: analyze_error returns (Ok: analysis is Some), workflow_failed
\* is emitted with or without the suggestion, and the loop is left.
WfAnalyzeReturn(analysis) ==
  /\ wfPc = "analyze"
  /\ suggestion' = analysis
  /\ events' = Append(events, FailedEvent(steps[pos],
                   returned[Len(returned)].stderr, analysis))
  /\ wfPc' = "finish"
  /\ UNCHANGED << runnerVars, streamVars, syncVars, steps, cwd, workflow_id, pos, steps_completed,
                  failed_step, error_msg, started, inflight, returned,
                  advisorCalls, ledgerCalls, result >>

\* lines 109-134: the last-run time is written when there is a workflow id
\* (the write succeeds or fails and its result is ignored), workflow_complete
\* is emitted and the WorkflowRunResult is returned.  The write is recorded
\* with its id, its outcome and the number of events emitted before it.
WfFinish ==
  /\ wfPc = "finish"
  /\ \E write_ok \in BOOLEAN :
       ledgerCalls' =
         IF LastRunIds(workflow_id) = {}
           THEN ledgerCalls
           ELSE Append(ledgerCalls,
                       [id |-> CHOOSE id \in LastRunIds(workflow_id) : TRUE,
                        ok |-> write_ok, emitted |-> Len(events)])
  /\ LET success == Success(failed_step) IN
       /\ events' = Append(events, CompleteEvent(success, steps_completed))
       /\ result' = ReturnOk([workflow_id |-> WfId, success |-> success,
                              steps_completed |-> steps_completed,
                              failed_step |-> failed_step, error |-> error_msg,
                              suggestion |-> suggestion])
  /\ wfPc' = "done"
  /\ UNCHANGED << runnerVars, streamVars, syncVars, steps, cwd, workflow_id, pos, steps_completed,
                  failed_step, error_msg, suggestion, started, inflight,
                  returned, advisorCalls >>

WorkflowNext ==
  \/ WfStepStart
  \/ WfLoopEnd
  \/ \E r \in SyncResults : WfSyncReturn(r)
  \/ \E analysis \in {None, Some("fix")} : WfAnalyzeReturn(analysis)
  \/ WfFinish

(* -------------------------- specifications ----------------------------- *)

vars == << runnerVars, streamVars, syncVars, workflowVars >>

\* every command is silent
AllSilent == {[i \in Ids |-> Silent]}

\* the command that gets id 1 has output, on one of its pipes at most one
\* line; every other command is silent
FirstSpeaks ==
  {[i \in Ids |-> IF i = 1 THEN sc ELSE Silent] :
     sc \in {x \in [Streams -> Scripts] : \E s \in Streams : Len(x[s]) <= 1}}

Init ==
  /\ RunnerInit
  /\ StreamInit(AllSilent)
  /\ WorkflowCalled(StepSeqs, {None, Some(5)}, {None})
  /\ NoSync

\* silent commands; no workflow to run: the empty step sequence, which ends
\* at once
InitRunner ==
  /\ RunnerInit
  /\ StreamInit(AllSilent)
  /\ WorkflowCalled({<< >>}, {None}, {None})
  /\ NoSync

\* one run_command_emit call is left to make, of a command with output; the
\* calls before it failed at insert_command_history; no workflow to run
InitStreams ==
  /\ RunnerStarts(MaxProcs - 1)
  /\ StreamInit(FirstSpeaks)
  /\ WorkflowCalled({<< >>}, {None}, {None})
  /\ NoSync

\* steps that differ in command and working directory, run with and without
\* a working directory of the run
InitDirs ==
  /\ RunnerInit
  /\ StreamInit(AllSilent)
  /\ WorkflowCalled(DirStepSeqs, {None}, {None, Some("/proj")})
  /\ NoSync

\* one run_command_sync call alone
InitSync ==
  /\ RunnerInit
  /\ StreamInit(AllSilent)
  /\ WorkflowCalled({<< >>}, {None}, {None})
  /\ SyncCalled(SyncInputs)

\* one run_command_emit call is left to make, and get_running_commands is
\* called; no workflow is run
InitList ==
  /\ RunnerStarts(MaxProcs - 1)
  /\ StreamInit(AllSilent)
  /\ WorkflowCalled({<< >>}, {None}, {None})
  /\ NoSync

\* one run_command call is left to make, with any of the guarded requests;
\* no workflow is run
InitCommand ==
  /\ RunnerStartsWith(MaxProcs - 1, GuardedRequests)
  /\ StreamInit(AllSilent)
  /\ WorkflowCalled({<< >>}, {None}, {None})
  /\ NoSync

\* one run_command_emit call is left to make while a workflow of steps with
\* the declared index 1 is run
InitMixed ==
  /\ RunnerStarts(MaxProcs - 1)
  /\ StreamInit(AllSilent)
  /\ WorkflowCalled(SeqsOver(StepsOver({1}, {Make}, {None}), MaxDirSteps),
                    {None}, {None})
  /\ NoSync

\* the runner alone: no workflow is run
SpecRunner == InitRunner /\ [][RunnerNext]_vars

\* one workflow run alone: no command is started through run_command_emit
SpecWorkflow == Init /\ [][WorkflowNext]_vars

\* one workflow run alone, its steps differing in command and directory
SpecWorkflowDirs == InitDirs /\ [][WorkflowNext]_vars

StreamsNext == RunnerNext \/ ReaderNext

\* one command with output, its reader tasks, its watcher and kill_command
SpecStreams == InitStreams /\ [][StreamsNext]_vars

MixedNext == RunnerNext \/ WorkflowNext

\* a workflow run beside run_command_emit, its watcher and kill_command
SpecMixed == InitMixed /\ [][MixedNext]_vars

CommandNext == RunnerNext \/ RunCommandRefused

\* run_command called with commands the Guard has something to say about
SpecCommand == InitCommand /\ [][CommandNext]_vars

\* one run_command_sync call alone
SpecSync == InitSync /\ [][SyncNext]_vars

ListNext == RunnerNext \/ GetRunningCommands

\* the runner with get_running_commands called at any moment
SpecList == InitList /\ [][ListNext]_vars

\* run_command_emit runs on to its return, the spawned watcher task is
\* scheduled, its sleeps end, and child.wait() returns once the process has
\* exited; nothing is assumed of the process or of the callers of
\* kill_command
RunnerFairness ==
  \A id \in Ids :
    /\ WF_vars(SpawnStore(id))
    /\ WF_vars(WatcherRemove(id))
    /\ WF_vars(WatcherWait(id))
    /\ WF_vars(WatcherFinalize(id))

\* one command, get_running_commands and kill_command, the tasks of the
\* runner being scheduled fairly
SpecLive == InitList /\ [][ListNext]_vars /\ RunnerFairness

Next ==
  \/ RunnerNext
  \/ RunCommandRefused
  \/ GetRunningCommands
  \/ ReaderNext
  \/ SyncNext
  \/ WorkflowNext

Spec == Init /\ [][Next]_vars

(* ------------------------ properties: runner --------------------------- *)

\* the record of id is finalized: the watcher has written the history row
\* and emitted command_exit
Finalized(id) == watcherPc[id] = "done"

\* a kill_command call took the child of id out of the registry
Killed(id) == killTook[id] > 0

\* id was started by run_command_emit and is neither finalized nor killed
Running(id) == spawnPc[id] = "returned" /\ ~Finalized(id) /\ ~Killed(id)

\* C1: the registry holds an id exactly while its process is Running (started,
\* neither finalized by the watcher nor killed).
C1_RegistryIsRunning ==
  \A id \in Ids : id \in RUNNING_PROCESSES <=> Running(id)

\* C2: a started process that has not exited and was not killed keeps its
\* registry entry, so that kill_command still finds it.
C2_StaysCancellable ==
  \A id \in Ids :
    (spawnPc[id] = "returned" /\ child[id] = "running" /\ ~Killed(id))
      => IsSome(RegistryTake(RUNNING_PROCESSES, id))

\* C3: kill_command on an id that is not in the registry returns NotFound and
\* removes nothing; on an id that is in the registry it removes that entry
\* and no other; once a call has removed an id, every later call on that id
\* returns NotFound.
C3_KillContract ==
  IsSome(lastKill) =>
    LET k == lastKill[1] IN
      /\ ~k.found => (k.result = "NotFound" /\ k.removed = {})
      /\ k.found => k.removed = {k.id}
      /\ k.earlier => k.result = "NotFound"

\* a kill_command call on an id that an earlier call had removed, made while
\* another process is still in the registry
C3_Witness ==
  /\ IsSome(lastKill)
  /\ lastKill[1].earlier
  /\ lastKill[1].result = "NotFound"
  /\ RUNNING_PROCESSES # {}

\* who took the child of id out of the registry
Owner(id) ==
  IF watcherTook[id] THEN "watcher" ELSE IF Killed(id) THEN "kill" ELSE "none"

\* number of parties that took the child of id out of the registry
Takers(id) == (IF watcherTook[id] THEN 1 ELSE 0) + killTook[id]

\* C4: the child of an id is taken out of the registry by at most one party,
\* one kill_command call or the watcher; once the watcher is past its
\* removal exactly one party has taken it; and the party that took it never
\* changes afterwards.
C4_SingleOwner ==
  /\ [](\A id \in Ids :
         /\ Takers(id) <= 1
         /\ watcherPc[id] \in {"wait", "sleep100", "done"} => Takers(id) = 1)
  /\ [][\A id \in Ids : Owner(id) # "none" => Owner(id)' = Owner(id)]_vars

\* a kill_command call took the child, the watcher then found none and has
\* finished, and a later kill_command call found nothing
C4_Witness ==
  \E id \in Ids :
    /\ Owner(id) = "kill"
    /\ watcherPc[id] = "done"
    /\ IsSome(lastKill) /\ lastKill[1].id = id /\ lastKill[1].earlier

\* C5: once kill_command has removed an id, the history row and the
\* command_exit event of that id carry only the exit code -1, whatever the
\* status the process really ended with.
C5_KilledReportsSentinel ==
  \A id \in Ids :
    Killed(id) =>
      /\ historyExit[id] \in {None, Some(UNKNOWN_EXIT)}
      /\ \A i \in 1 .. Len(exitEvents[id]) : exitEvents[id][i] = UNKNOWN_EXIT

\* a killed id whose process really ended with exit code 7 and whose row and
\* event carry -1
C5_Witness ==
  \E id \in Ids :
    /\ Killed(id)
    /\ child[id] = "exited" /\ status[id] = Some(7)
    /\ historyExit[id] = Some(UNKNOWN_EXIT)
    /\ exitEvents[id] = << UNKNOWN_EXIT >>

(* ------------------- properties: streams and watcher ------------------- *)

\* the sequence s is the beginning of the sequence t
IsPrefix(s, t) == Len(s) <= Len(t) /\ SubSeq(t, 1, Len(s)) = s

\* what holds of the watcher of id in every state
WatcherOrder(id) ==
  /\ spawnPc[id] # "returned" => watcherPc[id] = "none"
  /\ Len(exitEvents[id]) = IF watcherPc[id] = "done" THEN 1 ELSE 0
  /\ IsSome(exit_code[id]) =>
       /\ id \notin RUNNING_PROCESSES
       /\ exit_code[id][1] # UNKNOWN_EXIT =>
            /\ watcherTook[id] /\ child[id] = "exited"
            /\ status[id] = exit_code[id]
  /\ watcherPc[id] # "done" =>
       historyExit[id] = None /\ historyOutput[id] = None
  /\ watcherPc[id] = "done" =>
       /\ IsSome(exit_code[id])
       /\ exitEvents[id] = << exit_code[id][1] >>
       /\ IsSome(historyExit[id]) <=> IsSome(historyOutput[id])
       /\ IsSome(historyOutput[id]) =>
            /\ historyExit[id] = exit_code[id]
            /\ historyOutput[id][1].exit_events = 0
            /\ IsPrefix(historyOutput[id][1].stdout, buffer[id]["stdout"])
            /\ IsPrefix(historyOutput[id][1].stderr, buffer[id]["stderr"])

\* the step in which the watcher of id writes the history row writes the two
\* buffers as they are in that step
WritesBuffers(id) ==
  (watcherPc[id] = "sleep100" /\ IsSome(historyOutput'[id])) =>
    /\ historyOutput'[id][1].stdout = buffer[id]["stdout"]
    /\ historyOutput'[id][1].stderr = buffer[id]["stderr"]

\* C17: the watcher of a started process finalizes it at most once and in
\* this order: the registry entry is removed, the exit code is obtained (the
\* code of the exited process, else -1), the history row is written with
\* that exit code and the two buffers as they are then, and after that one
\* command_exit with the same id and exit code is emitted; no watcher runs
\* for a call that returned no handle.
C17_FinalizeOnce ==
  /\ [](\A id \in Ids : WatcherOrder(id))
  /\ [][\A id \in Ids : WritesBuffers(id)]_vars

\* the process exited with code 7 after writing to both pipes; its record
\* is finalized with exit code 7, two lines of stdout and one of stderr
C17_Witness ==
  /\ watcherPc[1] = "done"
  /\ exitEvents[1] = << 7 >>
  /\ historyExit[1] = Some(7)
  /\ IsSome(historyOutput[1])
  /\ historyOutput[1][1].stdout = << 1, NEWLINE, 2, NEWLINE >>
  /\ historyOutput[1][1].stderr = << 1, NEWLINE >>

\* C18: a buffer changes only by growing at its end, and not at all once
\* the record of its process is finalized.
C18_FrozenAfterFinalize ==
  [][\A id \in Ids, s \in Streams :
       /\ IsPrefix(buffer[id][s], buffer'[id][s])
       /\ Finalized(id) => buffer'[id][s] = buffer[id][s]]_vars

\* the concatenation of the chunks cs
RECURSIVE Concat(_)
Concat(cs) == IF cs = << >> THEN << >> ELSE Head(cs) \o Concat(Tail(cs))

\* C19: a reader emits one chunk, the line and a newline, for each line it
\* got, in the order of the stream, after it has pushed the line and the
\* newline to the buffer: the buffer is the concatenation of the chunks
\* emitted so far, followed by what is pushed of the line in progress, if
\* there is one; the two readers of a process advance independently.
C19_ChunkPerLine ==
  \A id \in Ids, s \in Streams :
    LET sc == script[id][s]
        n == nread[id][s]
        pc == readerPc[id][s]
        emitted == IF pc \in {"pushed_str", "pushed_newline"} THEN n - 1 ELSE n
        pending == IF pc = "pushed_str" THEN << sc[n].text >>
                   ELSE IF pc = "pushed_newline" THEN << sc[n].text, NEWLINE >>
                   ELSE << >>
    IN
      /\ n <= Len(sc)
      /\ \A k \in 1 .. n : sc[k].kind = "line"
      /\ chunks[id][s] = [k \in 1 .. emitted |-> << sc[k].text, NEWLINE >>]
      /\ buffer[id][s] = Concat(chunks[id][s]) \o pending

\* the stdout reader has emitted a chunk and pushed its second line without
\* the newline, after the stderr reader emitted a chunk
C19_Witness ==
  /\ chunks[1]["stdout"] = << << 1, NEWLINE >> >>
  /\ readerPc[1]["stdout"] = "pushed_str"
  /\ buffer[1]["stdout"] = << 1, NEWLINE, 2 >>
  /\ chunks[1]["stderr"] = << << 1, NEWLINE >> >>
  /\ buffer[1]["stderr"] = << 1, NEWLINE >>

\* C20: a line that is not valid UTF-8 does not end a reader task.
C20_InvalidLineRead ==
  \A id \in Ids, s \in Streams :
    readerPc[id][s] = "failed" =>
      script[id][s][nread[id][s] + 1].kind # "invalid"

\* the lines the reader of stream s of id has got, each with its newline
LinesGot(id, s) ==
  Concat([k \in 1 .. nread[id][s] |-> << script[id][s][k].text, NEWLINE >>])

\* the reader of stream s of id has ended at a read that failed
ReadAborted(id, s) ==
  /\ readerPc[id][s] = "failed"
  /\ script[id][s][nread[id][s] + 1].kind = "error"

\* C21: when a read of a pipe fails, the reader ends and leaves the buffer
\* as it is, holding the lines it had got; a history row written after that
\* holds these lines; and the watcher goes its way as ever: exit code from
\* the process or -1, the row with that code, one command_exit with it.
C21_ReadFailureKeepsOutput ==
  /\ [](\A id \in Ids, s \in Streams :
          ReadAborted(id, s) =>
            /\ buffer[id][s] = LinesGot(id, s)
            /\ WatcherOrder(id))
  /\ [][\A id \in Ids, s \in Streams :
          /\ (~ReadAborted(id, s) /\ ReadAborted(id, s)') =>
               buffer'[id][s] = buffer[id][s]
          /\ (ReadAborted(id, s) /\ watcherPc[id] = "sleep100"
                /\ IsSome(historyOutput'[id])) =>
               /\ historyOutput'[id][1][s] = LinesGot(id, s)
               /\ historyExit'[id] = exit_code[id]
               /\ exitEvents'[id] = << exit_code[id][1] >>]_vars

\* a read of stdout failed after one line; the process exited with 7 and
\* its record is finalized with that line and exit code 7
C21_Witness ==
  /\ ReadAborted(1, "stdout")
  /\ nread[1]["stdout"] = 1
  /\ watcherPc[1] = "done"
  /\ IsSome(historyOutput[1])
  /\ historyOutput[1][1].stdout = << 1, NEWLINE >>
  /\ historyExit[1] = Some(7)
  /\ exitEvents[1] = << 7 >>

(* ------------------------- properties: guard --------------------------- *)

\* the commands whose first word, without its directory prefix, is one of
\* the interactive programs
InteractiveTexts == {VimFile, UsrBinVim, SshRm}

\* what Guard reports for the command: the severity of the warning
Reported(c) ==
  IF c \in {RmRoot, SshRm}
  THEN Some("high")
  ELSE IF c \in {ChmodAll, CurlThenMkfs}
       THEN Some("medium")
       ELSE IF c = ShutdownNow THEN Some("low") ELSE None

\* force is absent or false
Unforced(r) == r.force \in {None, Some(FALSE)}

\* the request is one run_command must answer with an error
MustRefuse(r) ==
  \/ r.command \in InteractiveTexts
  \/ Reported(r.command) = Some("high") /\ Unforced(r)

\* C32: run_command returns an error, and starts nothing and leaves the
\* registry, the history and the events as they are, exactly when the first
\* word of the command, without its directory prefix, is an interactive
\* program or the warning is of severity high and force is absent or false;
\* a forced command with a high warning and a command with a medium or low
\* warning go on to run_command_emit.
C32_RefusedExactly ==
  /\ [](/\ \A r \in refused : MustRefuse(r)
        /\ \A id \in Ids : IsSome(spawned[id]) => ~MustRefuse(spawned[id][1]))
  /\ [][refused' # refused =>
          UNCHANGED << RUNNING_PROCESSES, nextId, spawnPc, spawned, child,
                       watcherPc, historyExit, historyOutput, exitEvents,
                       chunks >>]_vars

\* /usr/bin/vim file.txt was refused, though forced, and nothing was started
C32_Witness ==
  /\ refused = {[command |-> UsrBinVim, force |-> Some(TRUE)]}
  /\ \A id \in Ids : spawnPc[id] = "none"
  /\ RUNNING_PROCESSES = {}

\* the command matches a pattern of severity high
MatchesHigh(c) ==
  \E k \in Matching(c) : DANGEROUS_PATTERNS(c)[k].severity = "high"

\* C33: run_command with force absent or false never gets to spawn a command
\* that matches a pattern of severity high, whatever other patterns the
\* command matches and wherever they are in the list.
C33_HighNeverSpawnedUnforced ==
  \A id \in Ids :
    (child[id] # "none" /\ Unforced(spawned[id][1])) =>
      ~MatchesHigh(spawned[id][1].command)

(* ----------------------- properties: registry -------------------------- *)

\* the ids a step inserts into the registry, the ids it removes
Inserted == RUNNING_PROCESSES' \ RUNNING_PROCESSES
Removed == RUNNING_PROCESSES \ RUNNING_PROCESSES'

\* the members of a sequence
Range(v) == {v[k] : k \in DOMAIN v}

C25_Snapshot ==
  /\ [](\A i, j \in DOMAIN listLog :
          listLog[i].changes = listLog[j].changes =>
            Range(listLog[i].keys) = Range(listLog[j].keys))
  /\ [][listLog' # listLog =>
          LET got == listLog'[Len(listLog')].keys
          IN /\ Range(got) = RUNNING_PROCESSES
             /\ Len(got) = Cardinality(RUNNING_PROCESSES)
             /\ UNCHANGED << RUNNING_PROCESSES, child, status, signalled,
                             spawnPc, watcherPc, historyExit, exitEvents,
                             nextId >>]_vars

\* two calls while command 1 is running return [1] both
C25_Witness ==
  /\ Len(listLog) = 2
  /\ listLog[1].changes = listLog[2].changes
  /\ listLog[1].keys = << 1 >>
  /\ listLog[2].keys = << 1 >>
  /\ 1 \in RUNNING_PROCESSES

\* the id is or was the id of a spawn call
Allocated(id) == spawnPc[id] # "none"

\* C26: the ids spawn hands out are pairwise distinct and grow in the order
\* of allocation, however the spawn calls interleave: an id is allocated
\* once, it is larger than every id allocated before, and the ids allocated
\* are those below the next rowid; an id that the watcher or kill_command
\* has removed from the registry is never inserted again.
C26_FreshIds ==
  /\ [](\A id \in Ids : Allocated(id) <=> id < nextId)
  /\ [][\A id \in Ids :
          /\ (spawnPc'[id] = "row" /\ spawnPc[id] # "row") =>
               /\ ~Allocated(id)
               /\ \A other \in Ids : Allocated(other) => other < id
          /\ id \in Inserted =>
               /\ spawnPc[id] = "launched"
               /\ ~watcherTook[id]
               /\ killTook[id] = 0]_vars

\* the call that got id 2 has overtaken the call that got id 1, and id 2 was
\* removed from the registry by kill_command
C26_Witness ==
  /\ spawnPc[1] = "row"
  /\ spawnPc[2] = "returned"
  /\ killTook[2] = 1
  /\ 2 \notin RUNNING_PROCESSES

\* C27: every command that is launched was passed to
\* redaction::validate_command before: the command of a run_command call
\* before run_command_emit allocates its id, and the command of every
\* workflow step before run_command_sync is called for it.
C27_GuardFirst ==
  /\ \A id \in Ids : IsSome(spawned[id]) => spawned[id][1].command \in validated
  /\ \A k \in DOMAIN started : steps[started[k]].cmd \in validated

\* the update of the history row of id by the watcher failed
WriteFailed(id) == Finalized(id) /\ historyExit[id] = None

\* C28: when the update of the history row fails while the watcher
\* finalizes, command_exit is emitted all the same, once, for that id and
\* with the exit code the watcher determined.
C28_ExitEventDespiteWriteFailure ==
  /\ [](\A id \in Ids :
          WriteFailed(id) => exitEvents[id] = << exit_code[id][1] >>)
  /\ [][\A id \in Ids :
          (watcherPc[id] = "sleep100" /\ watcherPc'[id] = "done") =>
            exitEvents'[id] = Append(exitEvents[id], exit_code[id][1])]_vars

\* the process of 1 exited with 7, the update of its row failed and
\* command_exit was emitted with 7
C28_Witness ==
  /\ WriteFailed(1)
  /\ status[1] = Some(7)
  /\ exit_code[1] = Some(7)
  /\ exitEvents[1] = << 7 >>

\* C29: a failure of insert_command_history in a spawn call does not end
\* the call: every spawn call made goes on to get an id, under which its
\* process is launched and tracked and which its handle carries.
C29_InsertFailureIgnored ==
  spawnCalls = Cardinality({id \in Ids : Allocated(id)})

\* the spawn call of id has failed to create its process
SpawnFailed(id) == spawnPc[id] = "spawn_failed"

\* C30: a spawn call that cannot create its process returns the error at
\* once: the step that fails leaves the registry as it was, the id is never
\* in the registry, no reader and no watcher of it is started, and no
\* stdout, stderr or exit event of it is ever emitted.
C30_SpawnFailureLeavesNothing ==
  /\ [](\A id \in Ids :
          SpawnFailed(id) =>
            /\ id \notin RUNNING_PROCESSES
            /\ child[id] = "none"
            /\ watcherPc[id] = "none"
            /\ \A s \in Streams :
                 readerPc[id][s] = "none" /\ chunks[id][s] = << >>
            /\ exitEvents[id] = << >>)
  /\ [][\A id \in Ids :
          /\ (~Allocated(id) /\ Allocated(id)') =>
               RUNNING_PROCESSES' = RUNNING_PROCESSES
          /\ (~SpawnFailed(id) /\ SpawnFailed(id)') =>
               /\ spawnPc[id] = "row"
               /\ RUNNING_PROCESSES' = RUNNING_PROCESSES
          /\ SpawnFailed(id) => SpawnFailed(id)']_vars

\* the spawn call of a command that would print has failed to create its
\* process, and kill_command finds nothing under its id
C30_Witness ==
  /\ SpawnFailed(1)
  /\ script[1]["stdout"] # << >>
  /\ IsSome(lastKill)
  /\ lastKill[1].id = 1
  /\ lastKill[1].result = "NotFound"

(* -------------------- properties: run_command_sync --------------------- *)

\* the call has returned Ok((exit_code, stdout, stderr))
SyncOk == syncPc = "returned" /\ syncReturned[1].ok

\* the UTF-8 encoding of a string given by its code points (below 65536)
Utf8Char(c) ==
  IF c < 128
  THEN << c >>
  ELSE IF c < 2048
       THEN << 192 + (c \div 64), 128 + (c % 64) >>
       ELSE << 224 + (c \div 4096), 128 + ((c \div 64) % 64), 128 + (c % 64) >>
RECURSIVE Utf8Range(_, _, _)
Utf8Range(str, lo, hi) ==
  IF lo > hi
  THEN << >>
  ELSE IF lo = hi
       THEN Utf8Char(str[lo])
       ELSE LET mid == (lo + hi) \div 2
            IN Utf8Range(str, lo, mid) \o Utf8Range(str, mid + 1, hi)
Utf8Encode(str) == Utf8Range(str, 1, Len(str))

\* the bytes are ASCII, and so a UTF-8 text that is its own decoding
Ascii(data) == \A k \in DOMAIN data : data[k] < 128

Control(b) == b = 0 \/ (b < 32 /\ b \notin {9, 10, 13})

\* the number of sampled bytes of an output of two runs, and the number of
\* control bytes among them
SampledLen(runs) == Min(runs[1].count + runs[2].count, 1024)
SampledControls(runs) ==
  LET first == Min(runs[1].count, 1024)
      second == Min(runs[2].count, 1024 - first)
  IN (IF Control(runs[1].byte) THEN first ELSE 0)
       + (IF Control(runs[2].byte) THEN second ELSE 0)

FatalAt(i) ==
  /\ returned[i].ok
  /\ returned[i].exit_code # 0
  /\ ~steps[started[i]].continue_on_fail

\* the i-th run_command_sync call of the run failed to execute the command
SpawnFailedAt(i) == ~returned[i].ok

\* the names of the events emitted so far that are workflow_step_start
StepStartEvents == SelectSeq(events, LAMBDA e : e.name = "workflow_step_start")

\* the step of WorkflowSteps with declared index i and flag continue_on_fail
MakeStep(i, continue_on_fail) ==
  [step |-> i, cmd |-> Make, cwd |-> None,
   continue_on_fail |-> continue_on_fail]

\* steps 1, 2 (continue_on_fail = false), 3 of the first example
ExampleFatal ==
  << MakeStep(1, FALSE),
     MakeStep(2, FALSE),
     MakeStep(3, FALSE) >>

\* C6: the first step that exits nonzero with continue_on_fail = false ends
\* the run: no later step is started (no run_command_sync call, no
\* workflow_step_start event), and the result has success = false, the
\* failed step's declared index and its stderr as error; for steps 1, 2, 3
\* exiting 0, 1 the result has failed step 2 and last reached step 1.
C6_FatalStops ==
  \A i \in 1 .. Len(returned) :
    FatalAt(i) =>
      /\ Len(started) = i
      /\ Len(StepStartEvents) = i
      /\ IsSome(result) =>
           /\ result[1].success = FALSE
           /\ result[1].failed_step = Some(steps[started[i]].step)
           /\ result[1].error = Some(returned[i].stderr)
           /\ (steps = ExampleFatal /\ i = 2 /\ returned[1].exit_code = 0) =>
                /\ started = << 1, 2 >>
                /\ result[1].failed_step = Some(2)
                /\ result[1].steps_completed = 1

\* the run of steps 1, 2, 3 has returned after step 2 exited 1 with stderr
C6_Witness ==
  /\ steps = ExampleFatal
  /\ IsSome(result)
  /\ Len(returned) = 2
  /\ returned[1].exit_code = 0
  /\ FatalAt(2) /\ returned[2].stderr = "boom"

\* step 1 with continue_on_fail = true, then step 2, of the second example
ExampleContinue ==
  << MakeStep(1, TRUE),
     MakeStep(2, FALSE) >>

\* C7: a step that exits nonzero with continue_on_fail = true does not stop
\* the run: the step after it (if any) is started, and when no call fails
\* fatally or fails to execute, the result has success = true and no failed
\* step; steps 1 (continue_on_fail), 2 exiting 1, 0 give success = true and
\* last reached step 2.
C7_ContinueOnFail ==
  /\ \A i \in 1 .. Len(returned) :
       ( /\ returned[i].ok /\ returned[i].exit_code # 0
         /\ steps[started[i]].continue_on_fail
         /\ started[i] < Len(steps)
         /\ wfPc \in {"finish", "done"} )
         => (Len(started) > i /\ started[i + 1] = started[i] + 1)
  /\ ( /\ IsSome(result)
       /\ \A i \in 1 .. Len(returned) : ~FatalAt(i) /\ ~SpawnFailedAt(i) )
       => /\ result[1].success = TRUE
          /\ result[1].failed_step = None
          /\ ( /\ steps = ExampleContinue
               /\ returned[1].exit_code = 1 /\ returned[2].exit_code = 0 )
               => result[1].steps_completed = 2

\* the run of the second example has returned after exit codes 1, 0
C7_Witness ==
  /\ steps = ExampleContinue
  /\ IsSome(result)
  /\ Len(returned) = 2
  /\ returned[1].ok /\ returned[1].exit_code = 1
  /\ returned[2].ok /\ returned[2].exit_code = 0

\* the success flag of the workflow_complete event
CompleteEventSuccess == events[Len(events)].success

\* C8 as stated: success is true iff no executed step exited nonzero with
\* continue_on_fail = false.
C8_SuccessIffNoFatal ==
  IsSome(result) =>
    (result[1].success <=> \A i \in 1 .. Len(returned) : ~FatalAt(i))

\* C8 amended: the success flag of the result and of workflow_complete is
\* true iff no executed step exited nonzero with continue_on_fail = false and
\* no run_command_sync call failed to execute its command.
C8_SuccessIffNoFatalNoSpawnFailure ==
  IsSome(result) =>
    /\ result[1].success <=>
         \A i \in 1 .. Len(returned) : ~FatalAt(i) /\ ~SpawnFailedAt(i)
    /\ CompleteEventSuccess = result[1].success

\* a run that returned success = false after a step with continue_on_fail =
\* true exited nonzero and a later run_command_sync call failed to execute
C8_Witness ==
  /\ IsSome(result)
  /\ result[1].success = FALSE
  /\ Len(returned) = 2
  /\ returned[1].ok /\ returned[1].exit_code # 0
  /\ SpawnFailedAt(2)

\* C9: the steps are run in position order whatever their declared indices,
\* one at a time: a run_command_sync call starts only when every earlier
\* one has returned.
C9_Sequential ==
  /\ \A i \in 1 .. Len(started) : started[i] = i
  /\ Cardinality(inflight) <= 1
  /\ Len(started) - Len(returned) = Cardinality(inflight)
  /\ inflight # {} => inflight = {started[Len(started)]}

\* the second step is executing after the first returned, and the declared
\* indices are in descending order
C9_Witness ==
  /\ Len(steps) >= 2
  /\ steps[1].step > steps[2].step
  /\ inflight = {2}
  /\ Len(returned) = 1

\* the calls that returned without stopping the run
NonFatal == {i \in 1 .. Len(returned) : returned[i].ok /\ ~FatalAt(i)}

\* the greatest element of a non-empty set of numbers
Max(S) == CHOOSE x \in S : \A y \in S : y <= x

\* C10: steps_completed of the result is the declared index of the last
\* step, in position order, that finished without stopping the run, and 0
\* when there is none.
C10_LastReached ==
  IsSome(result) =>
    result[1].steps_completed =
      IF NonFatal = {} THEN 0 ELSE steps[started[Max(NonFatal)]].step

\* a run whose last non-fatal step has a declared index that is neither the
\* number of such steps nor the greatest declared index
C10_Witness ==
  /\ IsSome(result)
  /\ NonFatal # {}
  /\ result[1].steps_completed # Cardinality(NonFatal)
  /\ result[1].steps_completed # Max({steps[i].step : i \in 1 .. Len(steps)})
  /\ result[1].steps_completed = steps[started[Max(NonFatal)]].step

\* the run_command_sync calls that returned and stopped the run by a nonzero
\* exit of a step without continue_on_fail
FatalCalls == {i \in 1 .. Len(returned) : FatalAt(i)}

\* the run_command_sync calls that returned and stopped the run
Stopped == {i \in 1 .. Len(returned) : FatalAt(i) \/ SpawnFailedAt(i)}

\* the events emitted so far that are workflow_failed
FailedEvents == SelectSeq(events, LAMBDA e : e.name = "workflow_failed")

\* the events emitted so far that are workflow_complete
CompleteEvents == SelectSeq(events, LAMBDA e : e.name = "workflow_complete")

\* the events emitted so far that are workflow_step_complete
StepCompleteEvents ==
  SelectSeq(events, LAMBDA e : e.name = "workflow_step_complete")

\* the WorkflowRunResult that the steps, what their commands returned and
\* the suggestion sugg determine
RunOutcome(sugg) ==
  [workflow_id |-> WfId,
   success |-> Stopped = {},
   steps_completed |->
     IF NonFatal = {} THEN 0 ELSE steps[started[Max(NonFatal)]].step,
   failed_step |->
     IF Stopped = {} THEN None ELSE Some(steps[started[Max(Stopped)]].step),
   error |-> IF Stopped = {} THEN None ELSE Some(returned[Max(Stopped)].stderr),
   suggestion |-> sugg]

\* C11: ai::analyze_error is called once when a step fails fatally (nonzero
\* exit without continue_on_fail) and not at all otherwise; the call carries
\* that step's stderr, exit code, command and effective working directory
\* (the step's own, else the run's, else "."); whether the call gives an
\* analysis decides only the suggestion of the result and of workflow_failed,
\* all their other fields are what the steps determine.
C11_AdvisorOnFatal ==
  /\ Len(advisorCalls) = Cardinality(FatalCalls)
  /\ Len(advisorCalls) <= 1
  /\ \A i \in FatalCalls :
       LET s == steps[started[i]]
           dir == IF s.cwd # None THEN s.cwd[1]
                  ELSE IF cwd # None THEN cwd[1] ELSE "."
       IN
         /\ advisorCalls[1] = [stderr |-> returned[i].stderr,
                               exit_code |-> returned[i].exit_code,
                               command |-> s.cmd, cwd |-> Some(dir)]
         /\ IsSome(result) =>
              /\ result[1] = RunOutcome(result[1].suggestion)
              /\ ~result[1].success
              /\ FailedEvents =
                   << [name |-> "workflow_failed", workflow_id |-> WfId,
                       step |-> s.step, error |-> returned[i].stderr,
                       suggestion |-> result[1].suggestion] >>

\* a run has returned whose second step, with a working directory of its own
\* that is not the run's, failed fatally, and the analysis failed
C11_Witness ==
  /\ IsSome(result)
  /\ Len(returned) = 2 /\ FatalAt(2)
  /\ cwd = Some("/proj")
  /\ steps[2].cwd = Some("sub") /\ steps[2].cmd = Test
  /\ Len(advisorCalls) = 1
  /\ advisorCalls[1].cwd = Some("sub") /\ advisorCalls[1].command = Test
  /\ result[1].suggestion = None

\* C12: with a workflow id, update_workflow_last_run is called once, with
\* that id, when the loop is over (after a full run as after an early stop)
\* and before workflow_complete is emitted; without an id it is not called;
\* whether the write succeeds or fails, the result is what the steps
\* determine and workflow_complete reports its success and steps_completed.
C12_LastRunWrite ==
  /\ wfPc # "done" => ledgerCalls = << >>
  /\ wfPc = "done" =>
       /\ Len(ledgerCalls) = IF workflow_id = None THEN 0 ELSE 1
       /\ \A k \in 1 .. Len(ledgerCalls) :
            /\ ledgerCalls[k].id = workflow_id[1]
            /\ ledgerCalls[k].emitted = Len(events) - 1
            /\ \A j \in 1 .. ledgerCalls[k].emitted :
                 events[j].name # "workflow_complete"
       /\ inflight = {} /\ Len(returned) = Len(started)
       /\ result = Some(RunOutcome(suggestion))
       /\ events[Len(events)] =
            [name |-> "workflow_complete", workflow_id |-> WfId,
             success |-> Stopped = {},
             steps_completed |-> RunOutcome(suggestion).steps_completed]

\* a run with a workflow id has returned after an early stop and its one
\* update_workflow_last_run call failed
C12_Witness ==
  /\ wfPc = "done"
  /\ workflow_id = Some(5)
  /\ Stopped # {} /\ Len(returned) < Len(steps)
  /\ Len(ledgerCalls) = 1 /\ ~ledgerCalls[1].ok
  /\ IsSome(result) /\ ~result[1].success

\* C13: a run emits workflow_complete once, when it returns, and not before;
\* it is the last event emitted, and its success and steps_completed are the
\* result's.
C13_OneComplete ==
  /\ Len(CompleteEvents) = IF wfPc = "done" THEN 1 ELSE 0
  /\ IsSome(result) <=> wfPc = "done"
  /\ IsSome(result) =>
       LET e == events[Len(events)] IN
         /\ e.name = "workflow_complete"
         /\ e.success = result[1].success
         /\ e.steps_completed = result[1].steps_completed

\* the run of the empty step sequence has returned and workflow_complete is
\* its only event
C13_Witness ==
  /\ steps = << >>
  /\ IsSome(result)
  /\ Len(events) = 1
  /\ events[1].name = "workflow_complete" /\ events[1].success
  /\ events[1].steps_completed = 0

\* the position in events of the i-th workflow_step_start
StartAt(i) ==
  CHOOSE k \in 1 .. Len(events) :
    /\ events[k].name = "workflow_step_start"
    /\ Cardinality({j \in 1 .. k :
                      events[j].name = "workflow_step_start"}) = i

\* C14: for each step run, workflow_step_start is emitted before the
\* run_command_sync call and nothing is emitted while the call is in
\* progress; when the call returns a result, workflow_step_complete with the
\* step's exit code, stdout and stderr is the next event, also for the step
\* that fails fatally, where workflow_failed follows it; a call that fails
\* to execute has no workflow_step_complete.
C14_StepOrder ==
  /\ Len(StepStartEvents) = Len(started)
  /\ Len(StepCompleteEvents) =
       Cardinality({i \in 1 .. Len(returned) : returned[i].ok})
  /\ \A i \in 1 .. Len(started) :
       LET k == StartAt(i)
           s == steps[started[i]]
       IN
         /\ events[k].step = s.step
         /\ i > Len(returned) => k = Len(events)
         /\ (i <= Len(returned) /\ returned[i].ok) =>
              /\ k + 1 <= Len(events)
              /\ events[k + 1] =
                   [name |-> "workflow_step_complete", workflow_id |-> WfId,
                    step |-> s.step, exit_code |-> returned[i].exit_code,
                    stdout |-> returned[i].stdout,
                    stderr |-> returned[i].stderr]
              /\ (FatalAt(i) /\ wfPc = "analyze") => Len(events) = k + 1
              /\ (FatalAt(i) /\ wfPc \in {"finish", "done"}) =>
                   /\ k + 2 <= Len(events)
                   /\ events[k + 2].name = "workflow_failed"
         /\ (i <= Len(returned) /\ ~returned[i].ok) =>
              /\ k + 1 <= Len(events)
              /\ events[k + 1].name = "workflow_failed"

\* a run has returned whose second step failed fatally with output on
\* stderr: its workflow_step_complete is the fourth event, workflow_failed
\* the fifth
C14_Witness ==
  /\ IsSome(result)
  /\ Len(returned) = 2 /\ FatalAt(2)
  /\ returned[2].stderr = "boom" /\ returned[1].stdout = "out"
  /\ Len(events) = 6
  /\ events[4].name = "workflow_step_complete" /\ events[4].stderr = "boom"
  /\ events[5].name = "workflow_failed"

\* C15: workflow_failed is emitted at most once, before workflow_complete;
\* when the run has returned it was emitted exactly if the result has
\* success = false, and it carries the suggestion of the result, or none if
\* the result has none.
C15_OneFailed ==
  /\ Len(FailedEvents) <= 1
  /\ \A k \in 1 .. Len(events) :
       events[k].name = "workflow_failed" =>
         \A j \in 1 .. k : events[j].name # "workflow_complete"
  /\ IsSome(result) =>
       /\ Len(FailedEvents) = IF result[1].success THEN 0 ELSE 1
       /\ \A k \in 1 .. Len(FailedEvents) :
            FailedEvents[k].suggestion = result[1].suggestion

\* a run has returned with a suggestion, which its workflow_failed carries
C15_Witness ==
  /\ IsSome(result)
  /\ ~result[1].success
  /\ result[1].suggestion = Some("fix")
  /\ Len(FailedEvents) = 1
  /\ FailedEvents[1].suggestion = Some("fix")

\* C16 as stated: when the first run_command_sync call fails to execute the
\* command, run_workflow returns an error and no WorkflowRunResult; in every
\* other run it returns a WorkflowRunResult.
C16_FirstSpawnFailureIsError ==
  wfPc = "done" =>
    IF Len(returned) >= 1 /\ SpawnFailedAt(1)
      THEN result = None
      ELSE IsSome(result)

\* C16: run_workflow returns a WorkflowRunResult in every run; a step that
\* stopped the run, by failing to execute (the first step included) or by a
\* nonzero exit, is reported in it: success = false, the step's declared
\* index and the error text.
C16_FailuresInResult ==
  wfPc = "done" =>
    /\ IsSome(result)
    /\ \A i \in Stopped :
         /\ ~result[1].success
         /\ result[1].failed_step = Some(steps[started[i]].step)
         /\ result[1].error = Some(returned[i].stderr)

\* a run has returned whose first run_command_sync call failed to execute
\* the command: there is a WorkflowRunResult and it names the step
C16_Witness ==
  /\ wfPc = "done"
  /\ Len(returned) = 1 /\ SpawnFailedAt(1)
  /\ IsSome(result)
  /\ ~result[1].success
  /\ result[1].failed_step = Some(steps[1].step)
  /\ result[1].error = Some("Failed to execute command")

\* C31: when the run_command_sync call of a step fails to execute the
\* command, at any position and whatever the step's continue_on_fail flag,
\* the run stops there: no later step is started, the failed step and the
\* error are that step's index and the error text, steps_completed stays
\* what the steps before made it, one workflow_failed without suggestion is
\* emitted, no workflow_step_complete is emitted for the step, analyze_error
\* is not called, and the result has success = false.
C31_SpawnFailureStops ==
  \A i \in 1 .. Len(returned) :
    SpawnFailedAt(i) =>
      LET s == steps[started[i]]
          before == {k \in NonFatal : k < i}
      IN /\ i = Len(returned) /\ i = Len(started)
         /\ wfPc \in {"finish", "done"}
         /\ failed_step = Some(s.step)
         /\ error_msg = Some(returned[i].stderr)
         /\ steps_completed =
              (IF before = {} THEN 0 ELSE steps[started[Max(before)]].step)
         /\ FailedEvents = << [name |-> "workflow_failed", workflow_id |-> WfId,
                               step |-> s.step, error |-> returned[i].stderr,
                               suggestion |-> None] >>
         /\ Len(StepCompleteEvents) = i - 1
         /\ advisorCalls = << >>
         /\ suggestion = None
         /\ wfPc = "done" =>
              /\ ~result[1].success
              /\ result[1].failed_step = Some(s.step)
              /\ result[1].error = Some(returned[i].stderr)
              /\ result[1].steps_completed = steps_completed

\* a run of two steps has returned whose second step, with continue_on_fail,
\* could not be executed, and a third step was declared
C31_Witness ==
  /\ wfPc = "done"
  /\ Len(steps) = 3
  /\ Len(returned) = 2 /\ SpawnFailedAt(2)
  /\ steps[2].continue_on_fail
  /\ result[1].steps_completed = steps[1].step
  /\ result[1].failed_step = Some(steps[2].step)

\* command_started of id was emitted and its process was launched
Launched(id) == spawnPc[id] \in {"launched", "returned"}

\* command_started of id was emitted (before the process is created)
StartedEvent(id) == spawnPc[id] \in {"launched", "returned", "spawn_failed"}

\* C34: an id whose command_started was emitted and whose process was
\* launched gets, if the process ever terminates or is killed, its
\* command_exit; no id gets more than one command_exit, and none gets one
\* without command_started before.
C34_StartedThenOneExit ==
  /\ [](\A id \in Ids :
          /\ Len(exitEvents[id]) <= 1
          /\ exitEvents[id] # << >> => StartedEvent(id) /\ Launched(id))
  /\ \A id \in Ids :
       [](Launched(id) =>
            (<>(child[id] = "exited" \/ Killed(id)) =>
               <>(Len(exitEvents[id]) = 1)))

\* the process of 1 has exited by itself and its one command_exit is out
C34_Witness ==
  /\ Launched(1)
  /\ child[1] = "exited"
  /\ ~Killed(1)
  /\ exitEvents[1] = << 7 >>

\* the two readers of id have ended
ReadersEnded(id) == \A s \in Streams : readerPc[id][s] \in {"ended", "failed"}

\* C35: after command_exit of an id no command_stdout and no command_stderr
\* of that id is emitted, and the output written to the history row of the
\* id is, stream by stream, the concatenation of all chunks emitted.
C35_ChunksBeforeExit ==
  [][\A id \in Ids, s \in Streams :
       /\ exitEvents[id] # << >> => chunks'[id][s] = chunks[id][s]
       /\ (ReadersEnded(id)' /\ IsSome(historyOutput'[id])) =>
            historyOutput'[id][1][s] = Concat(chunks'[id][s])]_vars

\* C36: the watcher finds no entry for its id only if a kill_command call
\* removed it before, so the -1 of that branch is reported only for killed
\* processes; the watcher of a process that was never killed takes the child
\* and awaits it.
C36_AbsentOnlyIfKilled ==
  /\ [](\A id \in Ids :
          /\ (watcherPc[id] \in {"wait", "sleep100", "done"} /\ ~watcherTook[id])
               => Killed(id)
          /\ (watcherPc[id] \in {"wait", "sleep100", "done"} /\ ~Killed(id))
               => watcherTook[id])
  /\ [][\A id \in Ids :
          (watcherPc[id] = "sleep50" /\ watcherPc'[id] # "sleep50") =>
            IF Killed(id)
              THEN /\ watcherPc'[id] = "sleep100"
                   /\ exit_code'[id] = Some(-1)
              ELSE /\ watcherPc'[id] = "wait"
                   /\ exit_code'[id] = None]_vars

\* the watcher of 1 found no entry, id 1 having been killed, and reported -1
\* while the watcher of 2, never killed, awaits its child
C36_Witness ==
  /\ Killed(1) /\ ~watcherTook[1]
  /\ watcherPc[1] = "done" /\ exitEvents[1] = << -1 >>
  /\ ~Killed(2) /\ watcherTook[2] /\ watcherPc[2] = "wait"

\* a kill_command call took the child of id and its start_kill failed
KillFailedFor(id) == Killed(id) /\ ~signalled[id]

\* C37: kill_command removes the entry before it calls start_kill and does
\* not put it back when start_kill fails: the call returns an error that is
\* not NotFound, the id is in the registry no more, every later kill_command
\* on the id returns NotFound, and the watcher reports the id with -1
\* without awaiting the child.
C37_FailedKillStillRemoves ==
  /\ [](/\ \A id \in Ids :
             KillFailedFor(id) =>
               /\ id \notin RUNNING_PROCESSES
               /\ ~watcherTook[id] /\ watcherPc[id] # "wait"
               /\ exit_code[id] \in {None, Some(-1)}
               /\ \A k \in DOMAIN exitEvents[id] : exitEvents[id][k] = -1
        /\ IsSome(lastKill) =>
             /\ lastKill[1].result = "KillFailed" =>
                  /\ lastKill[1].found
                  /\ lastKill[1].removed = {lastKill[1].id}
                  /\ KillFailedFor(lastKill[1].id)
             /\ lastKill[1].result = "Ok" => signalled[lastKill[1].id])
  /\ [][\A id \in Ids :
          /\ (~Killed(id) /\ KillFailedFor(id)') =>
               /\ lastKill'[1].id = id
               /\ lastKill'[1].result \notin {"Ok", "NotFound"}
          /\ (KillFailedFor(id) /\ lastKill' # lastKill
                /\ lastKill'[1].id = id) =>
               lastKill'[1].result = "NotFound"]_vars

\* kill_command took the child of 1 and failed to signal it; the process
\* still runs, its record is finalized with -1, and a later kill_command on
\* 1 found nothing
C37_Witness ==
  /\ KillFailedFor(1)
  /\ child[1] = "running"
  /\ watcherPc[1] = "done" /\ exitEvents[1] = << -1 >>
  /\ historyExit[1] = Some(-1)
  /\ lastKill[1].id = 1 /\ lastKill[1].earlier
  /\ lastKill[1].result = "NotFound"

\* C38: a workflow run neither reads nor changes the registry: no step of
\* the run changes anything of the runner, every entry of the registry is
\* the id of a run_command_emit call that has returned its handle, so the
\* process of a workflow step is never in it, never listed by
\* get_running_commands and never found by kill_command; and what
\* run_command_emit, the watcher and kill_command do next does not depend on
\* where the run is.
C38_WorkflowLeavesRegistry ==
  /\ [](\A id \in RUNNING_PROCESSES : spawnPc[id] = "returned")
  /\ [][workflowVars' # workflowVars => UNCHANGED runnerVars]_vars
  /\ [][runnerVars' # runnerVars => UNCHANGED workflowVars]_vars
  /\ [][(IsSome(lastKill') /\ lastKill' # lastKill
          /\ lastKill'[1].result # "NotFound") =>
            spawnPc[lastKill'[1].id] = "returned"]_vars

\* a step of the run is in progress, declared index 1, while the command with
\* id 1 is in the registry, and kill_command on 1 has not been called
C38_Witness ==
  /\ wfPc = "sync"
  /\ steps[pos].step = 1
  /\ RUNNING_PROCESSES = {1}
  /\ lastKill = None

\* C39: every result returned by run has success false exactly when a failed
\* step index is present, exactly when an error text is present; it has a
\* suggestion only when success is false; and its run identifier is the
\* supplied one, or 0 when none was supplied.
C39_ResultShape ==
  IsSome(result) =>
    LET r == result[1] IN
      /\ (r.success = FALSE) <=> IsSome(r.failed_step)
      /\ IsSome(r.failed_step) <=> IsSome(r.error)
      /\ IsSome(r.suggestion) => r.success = FALSE
      /\ r.workflow_id = (IF IsSome(workflow_id) THEN workflow_id[1] ELSE 0)

\* a run with a supplied identifier has returned a failure with a suggestion
C39_Witness ==
  /\ IsSome(result)
  /\ IsSome(workflow_id)
  /\ result[1].success = FALSE
  /\ IsSome(result[1].suggestion)
  /\ result[1].workflow_id = workflow_id[1]

\* C40: the output persisted for a finalized process consists of whole
\* lines only: each stream of the row the watcher wrote is empty or ends
\* with the newline of its last line, whatever the reader task was doing
\* when the watcher cloned the buffer.
C40_WholeLinesPersisted ==
  \A id \in Ids, s \in Streams :
    IsSome(historyOutput[id]) =>
      LET out == historyOutput[id][1][s] IN
        out = << >> \/ out[Len(out)] = NEWLINE

=============================================================================
